---- MODULE Spec2Model ----
(***************************************************************************)
(* local-share: device registry / signaling relay, peer connection        *)
(* negotiation and the chunked file transfer that runs on a data channel.  *)
(*                                                                         *)
(* Part 1 (this section): the file transfer.                               *)
(*   sender   : WebRTCManager.sendFile        (src/lib/webrtc-manager.ts)  *)
(*   receiver : DeviceDiscovery.handleDataChannelMessage, handleFileChunk, *)
(*              reconstructFile               (src/lib/device-discovery.ts)*)
(*                                                                         *)
(* Bytes.  A byte string is kept as the list of runs of source bytes it is *)
(* made of: a run [f, lo, hi] stands for bytes lo..hi-1 of file f.  Runs   *)
(* that continue each other are merged, so two byte strings cut from the   *)
(* source files are equal exactly when their run lists are equal.  This    *)
(* keeps CHUNK_SIZE at its real value.                                     *)
(***************************************************************************)
EXTENDS Integers, Sequences, FiniteSets, TLC

\* ------------------------------------------------------------ constants
CHUNK_SIZE == 16384

\* ------------------------------------------------------------ bounds
MaxSends == 2        \* sendFile calls in one run
MaxFrames == 14      \* frames one run puts on the wire (13 = the 11-chunk file)
MaxEvents == 4       \* channel events fed to the receiver in SpecRecv

\* ------------------------------------------------------------ inputs
Remotes == {"r1", "r2"}
Senders == {"r1"}    \* the remote whose sendFile calls Spec follows
FileSizes == {0, 1, CHUNK_SIZE - 1, CHUNK_SIZE, CHUNK_SIZE + 1,
              10 * CHUNK_SIZE + 7, 40000}
\* One file of each size; a file's name tells its size class.
NameOf(size) ==
  IF size < CHUNK_SIZE THEN "small"
  ELSE IF size = CHUNK_SIZE THEN "exact"
  ELSE IF size <= 3 * CHUNK_SIZE THEN "medium" ELSE "large"
Files == {[name |-> NameOf(n), size |-> n, mimeType |-> "text/plain"] :
            n \in FileSizes}

NoTransfer == [none |-> TRUE]

VARIABLES
  chanState,      \* [Remotes -> {"open","closed"}]  RTCDataChannel.readyState
  chanGen,        \* [Remotes -> Nat]  which channel to that remote id this is
  wire,           \* [Remotes -> Seq(frame)]  sent, not yet delivered
  sends,          \* Seq of sendFile calls: [r, file, offset, st]
  fileTransfers,  \* [Remotes -> session | NoTransfer]  DeviceDiscovery.fileTransfers
  sent,           \* history, per remote: every frame put on its wire, with its call
  trace           \* history, per remote: what the receiver was given and emitted

xferVars == <<chanState, chanGen, wire, sends, fileTransfers, sent, trace>>

\* Part 2: registry, relay and negotiation (see below).
VARIABLES
  registry,       \* server: the ids in SignalingServer.devices
  up,             \* [Clients -> Seq(msg)]  socket messages client -> server
  down,           \* [Clients -> Seq(msg)]  socket messages server -> client
  pending,        \* [Clients -> Seq(task)] calls waiting in getDeviceById
  mgrs,           \* Seq of WebRTCManager instances, in order of creation
  connections,    \* [Clients -> [Ids -> entry]]  DeviceDiscovery.connections
  uiState,        \* [Clients -> [Ids -> state]]  NetworkingProvider connectionStates
  uiError,        \* [Clients -> string]          NetworkingProvider state.error
  calls,          \* connectToDevice calls made so far
  offers,         \* history: [Clients -> [Ids -> Nat]] offers emitted for the entry
  pcs,            \* history: [Clients -> [Ids -> Nat]] peer connections made by
                  \*          connectToDevice for the entry
  offerSeen,      \* history: [Clients -> SUBSET Ids] an offer to/from that id passed
  lost,           \* history: candidates delivered after the offer and not applied
  skipped         \* history: connectToDevice calls that returned at connections.has

connVars == <<registry, up, down, pending, mgrs, connections, uiState, uiError,
              calls, offers, pcs, offerSeen, lost, skipped>>

\* Part 3: the signaling server in detail (see below).
VARIABLES
  now,            \* server clock, ms since the server started
  sockets,        \* ids of the connected sockets
  gone,           \* ids of the sockets that have disconnected
  devices,        \* SignalingServer.devices as a sequence, in insertion order
  nextId,         \* the next fresh device id
  inbox,          \* [Sockets -> Seq(msg)] what each socket was sent, lists apart
  lists,          \* [Sockets -> list] the last 'devices-updated' each socket was sent
  lastSignal,     \* the last 'webrtc-signal' the server was given, and by whom
  nSignals,       \* 'webrtc-signal' events so far
  queries,        \* 'get-devices' events so far
  lastBeat,       \* [Sockets -> time] when the client's heartbeat timer last fired
  nextSweep       \* when the cleanup timer fires next

srvVars == <<now, sockets, gone, devices, nextId, inbox, lists, lastSignal,
             nSignals, queries, lastBeat, nextSweep>>

\* Part 4: the other senders and receivers of the repository (see below).
VARIABLES
  sender,         \* the implementation that sends in this run
  receiver,       \* the implementation that receives in this run
  snConnections,  \* SimpleNetworking.connections of the sender: the ids it holds
  libRecv         \* [Remotes -> the closure of one receiveFile(dc) call]

wireVars == <<sender, receiver, snConnections, libRecv>>

\* Part 5: one client instance and its sockets (see below).
VARIABLES
  created,        \* the sockets the instance has made with io(serverUrl)
  held,           \* this.socket: the socket the instance holds, or NoSocket
  buffered,       \* [Sockets -> Nat] 'register-device' emitted on the socket and
                  \*                  not yet handled by the server
  connects,       \* connect() calls so far
  stopped         \* disconnect() was called on the instance

cliVars == <<created, held, buffered, connects, stopped>>
vars == <<xferVars, connVars, srvVars, wireVars, cliVars>>

\* ------------------------------------------------------------ bytes
Min(a, b) == IF a < b THEN a ELSE b

\* file.slice(lo, hi) read as an ArrayBuffer: the bytes lo..hi-1 that exist.
Slice(file, lo, hi) ==
  LET a == Min(lo, file.size)
      b == Min(hi, file.size)
  IN  IF a < b THEN <<[f |-> file, lo |-> a, hi |-> b]>> ELSE <<>>

RECURSIVE ByteLength(_)
ByteLength(buf) ==
  IF buf = <<>> THEN 0
  ELSE (Head(buf).hi - Head(buf).lo) + ByteLength(Tail(buf))

\* b1 followed by b2.
Concat(b1, b2) ==
  IF b1 = <<>> THEN b2
  ELSE IF b2 = <<>> THEN b1
  ELSE LET l == b1[Len(b1)]
           h == Head(b2)
       IN  IF l.f = h.f /\ l.hi = h.lo
           THEN SubSeq(b1, 1, Len(b1) - 1)
                  \o <<[f |-> l.f, lo |-> l.lo, hi |-> h.hi]>> \o Tail(b2)
           ELSE b1 \o b2

\* new Blob(chunks): the chunks one after another, in array order.
RECURSIVE BlobOf(_)
BlobOf(chunks) ==
  IF chunks = <<>> THEN <<>>
  ELSE Concat(Head(chunks), BlobOf(Tail(chunks)))

FileBytes(file) == Slice(file, 0, file.size)

\* ------------------------------------------------------------ frames
\* A string frame carries JSON.stringify(message); a binary frame an ArrayBuffer.
TextFrame(msg) == [kind |-> "text", msg |-> msg]
BinaryFrame(buf) == [kind |-> "binary", data |-> buf]

FileStartMsg(file) ==
  [type |-> "file-start", name |-> file.name, size |-> file.size,
   mimeType |-> file.mimeType]
FileEndMsg == [type |-> "file-end"]

\* ------------------------------------------------------------ histories
Ev(k, r, x) == [k |-> k, r |-> r, gen |-> chanGen[r], x |-> x]
Put(call, frame) == [call |-> call, frame |-> frame]

\* ------------------------------------------------------------ sender
\* WebRTCManager.sendMessage: nothing is sent unless the channel is open.
SendMessage(r, w, msg) ==
  IF chanState[r] = "open" THEN Append(w, TextFrame(msg)) ELSE w

\* Bound only: room on the wire kept for a call (its frames, rounded up).
FrameBudget(file) == 3 + (file.size \div CHUNK_SIZE)
RECURSIVE Reserved(_)
Reserved(ss) == IF ss = <<>> THEN 0 ELSE FrameBudget(Head(ss).file) + Reserved(Tail(ss))

NewSend(r, file, st) == [r |-> r, file |-> file, offset |-> 0, st |-> st]

\* a sendFile that does not look at the channel before it starts
SendFileUnchecked(r, file) ==
  /\ Len(sends) < MaxSends
  /\ sends' = Append(sends, NewSend(r, file, "reading"))
  /\ wire' = [wire EXCEPT ![r] = Append(@, TextFrame(FileStartMsg(file)))]
  /\ sent' = [sent EXCEPT ![r] =
                Append(@, Put(Len(sends) + 1, TextFrame(FileStartMsg(file))))]
  /\ UNCHANGED <<chanState, chanGen, fileTransfers, trace>>
  /\ UNCHANGED <<connVars, srvVars, wireVars, cliVars>>

\* WebRTCManager.sendFile(file), up to the first readAsArrayBuffer.
SendFile(r, file) ==
  /\ Len(sends) < MaxSends
  /\ Reserved(sends) + FrameBudget(file) <= MaxFrames
  /\ IF chanState[r] # "open"
     THEN /\ sends' = Append(sends, NewSend(r, file, "rejected"))
          /\ UNCHANGED <<wire, sent>>
     ELSE /\ sends' = Append(sends, NewSend(r, file, "reading"))
          /\ wire' = [wire EXCEPT ![r] = SendMessage(r, @, FileStartMsg(file))]
          /\ sent' = [sent EXCEPT ![r] =
                        Append(@, Put(Len(sends) + 1, TextFrame(FileStartMsg(file))))]
  /\ UNCHANGED <<chanState, chanGen, fileTransfers, trace>>
  /\ UNCHANGED <<connVars, srvVars, wireVars, cliVars>>

\* reader.onload of call k: the slice has been read.
ReaderOnload(k) ==
  LET s == sends[k]
      r == s.r
      result == Slice(s.file, s.offset, s.offset + CHUNK_SIZE)
      offset == s.offset + CHUNK_SIZE
  IN
  /\ s.st = "reading"
  /\ IF chanState[r] # "open"
     THEN \* dataChannel.send throws; the catch rejects
          /\ sends' = [sends EXCEPT ![k].st = "rejected"]
          /\ UNCHANGED <<wire, sent>>
     ELSE IF offset < s.file.size
     THEN /\ sends' = [sends EXCEPT ![k].offset = offset]
          /\ wire' = [wire EXCEPT ![r] = Append(@, BinaryFrame(result))]
          /\ sent' = [sent EXCEPT ![r] = Append(@, Put(k, BinaryFrame(result)))]
     ELSE /\ sends' = [sends EXCEPT ![k].offset = offset, ![k].st = "resolved"]
          /\ wire' = [wire EXCEPT ![r] =
                        SendMessage(r, Append(@, BinaryFrame(result)), FileEndMsg)]
          /\ sent' = [sent EXCEPT ![r] = @ \o <<Put(k, BinaryFrame(result)),
                                                 Put(k, TextFrame(FileEndMsg))>>]
  /\ UNCHANGED <<chanState, chanGen, fileTransfers, trace>>
  /\ UNCHANGED <<connVars, srvVars, wireVars, cliVars>>

\* a reader.onerror that still sends file-end
ReaderOnerrorSendsEnd(k) ==
  /\ sends[k].st = "reading"
  /\ sends' = [sends EXCEPT ![k].st = "rejected"]
  /\ wire' = [wire EXCEPT ![sends[k].r] = Append(@, TextFrame(FileEndMsg))]
  /\ sent' = [sent EXCEPT ![sends[k].r] = Append(@, Put(k, TextFrame(FileEndMsg)))]
  /\ UNCHANGED <<chanState, chanGen, fileTransfers, trace>>
  /\ UNCHANGED <<connVars, srvVars, wireVars, cliVars>>

\* reader.onerror of call k.
ReaderOnerror(k) ==
  /\ sends[k].st = "reading"
  /\ sends' = [sends EXCEPT ![k].st = "rejected"]
  /\ UNCHANGED <<chanState, chanGen, wire, fileTransfers, sent, trace>>
  /\ UNCHANGED <<connVars, srvVars, wireVars, cliVars>>

\* ------------------------------------------------------------ receiver
NewTransfer(msg) ==
  [fileName |-> msg.name, totalSize |-> msg.size, mimeType |-> msg.mimeType,
   chunks |-> <<>>, receivedSize |-> 0]

\* a progress report that always says the file is complete
ProgressTotal(t) ==
  [fileName |-> t.fileName, totalSize |-> t.totalSize, receivedSize |-> t.totalSize]

Progress(t) ==
  [fileName |-> t.fileName, totalSize |-> t.totalSize,
   receivedSize |-> t.receivedSize]

\* case 'file-start': the table entry is set, whatever was there.
OnFileStart(ft, r, msg) == [ft EXCEPT ![r] = NewTransfer(msg)]

\* DeviceDiscovery.handleFileChunk
HandleFileChunk(ft, r, chunk) ==
  IF ft[r] = NoTransfer THEN ft
  ELSE [ft EXCEPT ![r].chunks = Append(@, chunk),
                  ![r].receivedSize = @ + ByteLength(chunk)]

\* DeviceDiscovery.reconstructFile: the ReceivedFile handed to onFileReceived.
ReceivedFileOf(t, r) ==
  [name |-> t.fileName, size |-> t.totalSize, mimeType |-> t.mimeType,
   blob |-> BlobOf(t.chunks), fromDevice |-> r]

ReconstructFile(ft, r) == [ft EXCEPT ![r] = NoTransfer]

\* What handleDataChannelMessage emits for one frame, given the table before.
Emitted(ft, r, frame) ==
  IF frame.kind = "text"
  THEN IF frame.msg.type = "file-start"
       THEN <<Ev("progress", r, Progress(NewTransfer(frame.msg)))>>
       ELSE IF frame.msg.type = "file-end" /\ ft[r] # NoTransfer
       THEN <<Ev("received", r, ReceivedFileOf(ft[r], r))>>
       ELSE <<>>
  ELSE IF ft[r] = NoTransfer THEN <<>>
       ELSE <<Ev("progress", r, Progress(HandleFileChunk(ft, r, frame.data)[r]))>>

\* The table after handleDataChannelMessage.
TableAfter(ft, r, frame) ==
  IF frame.kind = "text"
  THEN IF frame.msg.type = "file-start" THEN OnFileStart(ft, r, frame.msg)
       ELSE IF frame.msg.type = "file-end" /\ ft[r] # NoTransfer
       THEN ReconstructFile(ft, r)
       ELSE ft
  ELSE HandleFileChunk(ft, r, frame.data)

\* DeviceDiscovery.handleDataChannelMessage(r, event)
HandleDataChannelMessage(r, frame) ==
  /\ fileTransfers' = TableAfter(fileTransfers, r, frame)
  /\ trace' = [trace EXCEPT ![r] =
                  @ \o <<Ev("msg", r, frame)>> \o Emitted(fileTransfers, r, frame)]

\* channel.onmessage: the next frame in flight reaches the receiver.
Deliver(r) ==
  /\ chanState[r] = "open"
  /\ wire[r] # <<>>
  /\ HandleDataChannelMessage(r, Head(wire[r]))
  /\ wire' = [wire EXCEPT ![r] = Tail(@)]
  /\ UNCHANGED <<chanState, chanGen, sends, sent>>
  /\ UNCHANGED <<connVars, srvVars, wireVars, cliVars>>

\* channel.onclose: logged, nothing else; frames in flight are lost.
CloseChannel(r) ==
  /\ chanState[r] = "open"
  /\ chanState' = [chanState EXCEPT ![r] = "closed"]
  /\ wire' = [wire EXCEPT ![r] = <<>>]
  /\ trace' = [trace EXCEPT ![r] = Append(@, Ev("close", r, <<>>))]
  /\ UNCHANGED <<chanGen, sends, fileTransfers, sent>>
  /\ UNCHANGED <<connVars, srvVars, wireVars, cliVars>>

\* What the receiver is given: frames and channel events, not what it emits.
IsInput(e) == e.k \in {"msg", "close", "open", "chan-error"}
RECURSIVE Inputs(_)
Inputs(t) ==
  IF t = <<>> THEN 0
  ELSE (IF IsInput(Head(t)) THEN 1 ELSE 0) + Inputs(Tail(t))
RECURSIVE TotalInputs(_)
TotalInputs(R) ==
  IF R = {} THEN 0
  ELSE LET r == CHOOSE x \in R : TRUE
       IN  Inputs(trace[r]) + TotalInputs(R \ {r})

\* channel.onerror -> onDataChannelError -> handlers.onError; nothing else.
ChannelError(r) ==
  /\ TotalInputs(Remotes) < MaxEvents
  /\ chanState[r] = "open"
  /\ trace' = [trace EXCEPT ![r] =
                  @ \o <<Ev("chan-error", r, <<>>),
                         Ev("error", r, "Data channel error")>>]
  /\ UNCHANGED <<chanState, chanGen, wire, sends, fileTransfers, sent>>
  /\ UNCHANGED <<connVars, srvVars, wireVars, cliVars>>

\* A new channel to the same remote id opens (a new offer from that remote was
\* answered: handleOffer, setupWebRTCHandlers with the same deviceId).  The
\* transfer table is keyed by the remote id and is not touched.
Reconnect(r) ==
  /\ TotalInputs(Remotes) < MaxEvents
  /\ chanState[r] = "closed"
  /\ chanState' = [chanState EXCEPT ![r] = "open"]
  /\ chanGen' = [chanGen EXCEPT ![r] = @ + 1]
  /\ trace' = [trace EXCEPT ![r] = Append(@, [k |-> "open", r |-> r,
                                              gen |-> chanGen[r] + 1, x |-> <<>>])]
  /\ UNCHANGED <<wire, sends, fileTransfers, sent>>
  /\ UNCHANGED <<connVars, srvVars, wireVars, cliVars>>

\* The frames a remote may put on a channel in SpecRecv.
RecvFiles == {f \in Files : f.size \in {1, CHUNK_SIZE + 1}}
RecvFrames ==
  {TextFrame(FileStartMsg(f)) : f \in RecvFiles}
    \cup {TextFrame(FileEndMsg)}
    \cup {BinaryFrame(Slice(f, o, o + CHUNK_SIZE)) :
            f \in RecvFiles, o \in {0, CHUNK_SIZE}}

\* channel.onmessage with a frame of the remote's choice.
RemoteFrame(r, frame) ==
  /\ TotalInputs(Remotes) < MaxEvents
  /\ chanState[r] = "open"
  /\ HandleDataChannelMessage(r, frame)
  /\ UNCHANGED <<chanState, chanGen, wire, sends, sent>>
  /\ UNCHANGED <<connVars, srvVars, wireVars, cliVars>>

\* channel.onclose, as one of the bounded channel events of SpecRecv.
RecvClose(r) ==
  /\ TotalInputs(Remotes) < MaxEvents
  /\ CloseChannel(r)

\* DeviceDiscovery.disconnect(): webrtc.close() on every connection and
\* connections.clear(); the transfer table is not touched.
DiscoveryDisconnect ==
  /\ TotalInputs(Remotes) < MaxEvents
  /\ \E r \in Remotes : chanState[r] = "open"
  /\ chanState' = [r \in Remotes |-> "closed"]
  /\ wire' = [r \in Remotes |-> <<>>]
  /\ trace' = [r \in Remotes |->
                IF chanState[r] = "open"
                THEN Append(trace[r], Ev("close", r, <<>>))
                ELSE trace[r]]
  /\ UNCHANGED <<chanGen, sends, fileTransfers, sent>>
  /\ UNCHANGED <<connVars, srvVars, wireVars, cliVars>>

(***************************************************************************)
(* Part 2: registry, relay and negotiation.                                *)
(*   server   : SignalingServer                     (src/server.js)        *)
(*   client   : DeviceDiscovery  (src/lib/device-discovery.ts) driving     *)
(*              WebRTCManager    (src/lib/webrtc-manager.ts)               *)
(*   caller   : NetworkingProvider.connectToDevice  (src/unnamed/part_000) *)
(* A client's device id is its name; it is registered from the start and   *)
(* its socket is connected exactly while its id is in the registry.        *)
(* The browser's RTCPeerConnection is followed by the events it raises.    *)
(***************************************************************************)
Clients == {"A", "B"}
Unknown == "U"       \* an id the registry never held
Ids == Clients \cup {Unknown}
Callers == {"A"}     \* the clients whose user calls connectToDevice

MaxCalls == 2        \* connectToDevice calls in one run
MaxCand == 1         \* candidates gathered in one run

NoConn == [status |-> "none", mgr |-> 0]

\* ------------------------------------------------------------ socket messages
GetDevices == [ev |-> "get-devices"]
DevicesUpdated(list) == [ev |-> "devices-updated", devices |-> list]
ErrorMsg(text) == [ev |-> "error", message |-> text]
Signal(type, data, target, source) ==
  [ev |-> "webrtc-signal", type |-> type, data |-> data,
   targetDeviceId |-> target, sourceDeviceId |-> source]

\* socket.emit on client d: the message leaves only while the socket is connected.
Emit(u, d, msg) == IF d \in registry THEN [u EXCEPT ![d] = Append(@, msg)] ELSE u

\* ------------------------------------------------------------ server
\* socket.on('get-devices'): sendDeviceList(socket)
SendDeviceList(dn, d) == [dn EXCEPT ![d] = Append(@, DevicesUpdated(registry))]

\* socket.on('webrtc-signal'): forward to the target, or answer with an error.
Forward(dn, d, msg) ==
  IF msg.targetDeviceId \in registry
  THEN [dn EXCEPT ![msg.targetDeviceId] = Append(@, msg)]
  ELSE [dn EXCEPT ![d] = Append(@, ErrorMsg("Target device not found"))]

\* The server takes the next message of client d's socket.
ServerHandle(d) ==
  /\ up[d] # <<>>
  /\ up' = [up EXCEPT ![d] = Tail(@)]
  /\ down' = IF Head(up[d]).ev = "get-devices"
             THEN SendDeviceList(down, d)
             ELSE Forward(down, d, Head(up[d]))
  /\ UNCHANGED <<registry, pending, mgrs, connections, uiState, uiError, calls,
                 offers, pcs, offerSeen, lost, skipped>>
  /\ UNCHANGED <<xferVars, srvVars, wireVars, cliVars>>

\* io.emit('devices-updated') to every connected socket.
Broadcast(dn, reg) ==
  [c \in Clients |-> IF c \in reg THEN Append(dn[c], DevicesUpdated(reg)) ELSE <<>>]

\* Client d's socket disconnects: the server removes the device and broadcasts;
\* the client's 'disconnect' handler clears its deviceId.
Disconnect(d) ==
  /\ d \in registry
  /\ registry' = registry \ {d}
  /\ up' = [up EXCEPT ![d] = <<>>]
  /\ down' = Broadcast(down, registry \ {d})
  /\ UNCHANGED <<pending, mgrs, connections, uiState, uiError, calls,
                 offers, pcs, offerSeen, lost, skipped>>
  /\ UNCHANGED <<xferVars, srvVars, wireVars, cliVars>>

\* ------------------------------------------------------------ connectToDevice
ConnectTask(t) == [kind |-> "connect", peer |-> t, data |-> 0]
OfferTask(msg) == [kind |-> "offer", peer |-> msg.sourceDeviceId, data |-> msg.data]

\* NetworkingProvider.connectToDevice(t) calling DeviceDiscovery.connectToDevice(t),
\* up to the await in getDeviceById.
ConnectToDevice(d, t) ==
  /\ calls < MaxCalls
  /\ t # d
  /\ calls' = calls + 1
  /\ IF d \notin registry
     THEN \* 'Not connected to signaling server' is thrown; the provider catches it
          /\ uiState' = [uiState EXCEPT ![d][t] = "failed"]
          /\ uiError' = [uiError EXCEPT ![d] = "Not connected to signaling server"]
          /\ UNCHANGED <<up, pending, skipped>>
     ELSE IF connections[d][t] # NoConn
     THEN \* 'Already have connection': the call returns
          /\ uiState' = [uiState EXCEPT ![d][t] = "connecting"]
          /\ uiError' = [uiError EXCEPT ![d] = "none"]
          /\ skipped' = skipped \cup
                          {[d |-> d, t |-> t, status |-> connections[d][t].status]}
          /\ UNCHANGED <<up, pending>>
     ELSE /\ uiState' = [uiState EXCEPT ![d][t] = "connecting"]
          /\ uiError' = [uiError EXCEPT ![d] = "none"]
          /\ up' = Emit(up, d, GetDevices)
          /\ pending' = [pending EXCEPT ![d] = Append(@, ConnectTask(t))]
          /\ UNCHANGED skipped
  /\ UNCHANGED <<registry, down, mgrs, connections, offers, pcs, offerSeen, lost>>
  /\ UNCHANGED <<xferVars, srvVars, wireVars, cliVars>>

\* new WebRTCManager + what createOffer / handleOffer do before their first await.
NewManager(d, r, role, peer) ==
  [owner |-> d, remote |-> r, role |-> role,
   stage |-> IF role = "initiator" THEN "creating" ELSE "answering",
   pc |-> "new",
   dc |-> IF role = "initiator" THEN "connecting" ELSE "none",
   local |-> FALSE, remoteSet |-> FALSE, peer |-> peer,
   cands |-> {}, gathered |-> 0]

\* One call resumes after getDeviceById gave `list` (the empty set for null).
\* st holds what the call may change: mgrs, and d's connections, ui state,
\* error and the count of peer connections.
ResumeOne(d, task, list, st) ==
  IF task.peer \notin list
  THEN IF task.kind = "connect"
       THEN \* throw new Error('Target device not found'), caught by the provider
            [st EXCEPT !.ui[task.peer] = "failed",
                       !.err = "Target device not found"]
       ELSE st   \* 'Unknown source device for offer'
  ELSE IF task.kind = "connect"
  THEN [st EXCEPT
          !.mgrs = Append(@, NewManager(d, task.peer, "initiator", 0)),
          !.conns[task.peer] = [status |-> "connecting", mgr |-> Len(st.mgrs) + 1],
          !.pcs[task.peer] = @ + 1]
  ELSE [st EXCEPT
          !.mgrs = Append(@, NewManager(d, task.peer, "responder", task.data)),
          !.conns[task.peer] = [status |-> "connecting", mgr |-> Len(st.mgrs) + 1]]

RECURSIVE RunPending(_, _, _, _)
RunPending(d, tasks, list, st) ==
  IF tasks = <<>> THEN st
  ELSE RunPending(d, Tail(tasks), list, ResumeOne(d, Head(tasks), list, st))

ClientView(d) ==
  [mgrs |-> mgrs, conns |-> connections[d], ui |-> uiState[d],
   err |-> uiError[d], pcs |-> pcs[d]]

SetClientView(d, st) ==
  /\ mgrs' = st.mgrs
  /\ connections' = [connections EXCEPT ![d] = st.conns]
  /\ uiState' = [uiState EXCEPT ![d] = st.ui]
  /\ uiError' = [uiError EXCEPT ![d] = st.err]
  /\ pcs' = [pcs EXCEPT ![d] = st.pcs]

\* socket 'devices-updated' at d: every socket.once listener that getDeviceById
\* registered fires, and each waiting call runs on to its next await.
RecvDevicesUpdated(d) ==
  /\ down[d] # <<>>
  /\ Head(down[d]).ev = "devices-updated"
  /\ down' = [down EXCEPT ![d] = Tail(@)]
  /\ SetClientView(d, RunPending(d, pending[d], Head(down[d]).devices, ClientView(d)))
  /\ pending' = [pending EXCEPT ![d] = <<>>]
  /\ UNCHANGED <<registry, up, calls, offers, offerSeen, lost, skipped>>
  /\ UNCHANGED <<xferVars, srvVars, wireVars, cliVars>>

RemoveAt(q, i) == SubSeq(q, 1, i - 1) \o SubSeq(q, i + 1, Len(q))

\* getDeviceById's 5000 ms timer fires first: the call resumes with null.
GetDeviceTimeout(d, i) ==
  /\ i \in 1..Len(pending[d])
  /\ SetClientView(d, ResumeOne(d, pending[d][i], {}, ClientView(d)))
  /\ pending' = [pending EXCEPT ![d] = RemoveAt(@, i)]
  /\ UNCHANGED <<registry, up, down, calls, offers, offerSeen, lost, skipped>>
  /\ UNCHANGED <<xferVars, srvVars, wireVars, cliVars>>

\* socket 'error' at d: handlers.onError(message)
RecvError(d) ==
  /\ down[d] # <<>>
  /\ Head(down[d]).ev = "error"
  /\ down' = [down EXCEPT ![d] = Tail(@)]
  /\ uiError' = [uiError EXCEPT ![d] = Head(down[d]).message]
  /\ UNCHANGED <<registry, up, pending, mgrs, connections, uiState, calls,
                 offers, pcs, offerSeen, lost, skipped>>
  /\ UNCHANGED <<xferVars, srvVars, wireVars, cliVars>>

\* ------------------------------------------------------------ signals at a client
SignalAt(d, type) ==
  /\ down[d] # <<>>
  /\ Head(down[d]).ev = "webrtc-signal"
  /\ Head(down[d]).type = type

\* handleWebRTCSignal 'offer': handleOffer runs up to the await in getDeviceById.
RecvOffer(d) ==
  /\ SignalAt(d, "offer")
  /\ down' = [down EXCEPT ![d] = Tail(@)]
  /\ up' = Emit(up, d, GetDevices)
  /\ pending' = [pending EXCEPT ![d] = Append(@, OfferTask(Head(down[d])))]
  /\ offerSeen' = [offerSeen EXCEPT ![d] = @ \cup {Head(down[d]).sourceDeviceId}]
  /\ UNCHANGED <<registry, mgrs, connections, uiState, uiError, calls,
                 offers, pcs, lost, skipped>>
  /\ UNCHANGED <<xferVars, srvVars, wireVars, cliVars>>

\* RTCPeerConnection.setRemoteDescription(answer) succeeds only on a peer
\* connection that has its own offer as local description and no remote one.
AcceptsAnswer(m) == /\ m.role = "initiator"
                    /\ m.local
                    /\ ~m.remoteSet
                    /\ m.pc # "closed"

\* handleWebRTCSignal 'answer': DeviceDiscovery.handleAnswer, WebRTCManager.handleAnswer
RecvAnswer(d) ==
  /\ SignalAt(d, "answer")
  /\ down' = [down EXCEPT ![d] = Tail(@)]
  /\ LET msg == Head(down[d])
         conn == connections[d][msg.sourceDeviceId]
     IN IF conn = NoConn
        THEN UNCHANGED <<mgrs, uiError>>     \* 'No connection found for answer'
        ELSE IF AcceptsAnswer(mgrs[conn.mgr])
        THEN /\ mgrs' = [mgrs EXCEPT ![conn.mgr].remoteSet = TRUE,
                                     ![conn.mgr].peer = msg.data]
             /\ UNCHANGED uiError
        ELSE /\ uiError' = [uiError EXCEPT ![d] = "WebRTC signaling error"]
             /\ UNCHANGED mgrs
  /\ UNCHANGED <<registry, up, pending, connections, uiState, calls,
                 offers, pcs, offerSeen, lost, skipped>>
  /\ UNCHANGED <<xferVars, srvVars, wireVars, cliVars>>

\* RTCPeerConnection.addIceCandidate needs a remote description; one that is
\* being set (handleOffer's setRemoteDescription) is waited for.
AcceptsCandidate(m) == /\ m.pc # "closed"
                       /\ \/ m.remoteSet
                          \/ m.role = "responder" /\ m.stage = "answering"

ChannelOpenTo(d, r) ==
  /\ connections[d][r] # NoConn
  /\ mgrs[connections[d][r].mgr].dc = "open"

\* handleWebRTCSignal 'ice-candidate': DeviceDiscovery.handleIceCandidate,
\* WebRTCManager.handleIceCandidate.  `lost` records a candidate that was not
\* applied although the offer had been seen and the channel was not open.
RecvIceCandidate(d) ==
  /\ SignalAt(d, "ice-candidate")
  /\ down' = [down EXCEPT ![d] = Tail(@)]
  /\ LET msg == Head(down[d])
         src == msg.sourceDeviceId
         conn == connections[d][src]
         counts == src \in offerSeen[d] /\ ~ChannelOpenTo(d, src)
     IN IF conn = NoConn
        THEN \* 'No connection found for ICE candidate'
             /\ lost' = IF counts THEN lost \cup {msg.data} ELSE lost
             /\ UNCHANGED <<mgrs, uiError>>
        ELSE IF AcceptsCandidate(mgrs[conn.mgr])
        THEN /\ mgrs' = [mgrs EXCEPT ![conn.mgr].cands = @ \cup {msg.data}]
             /\ UNCHANGED <<lost, uiError>>
        ELSE /\ uiError' = [uiError EXCEPT ![d] = "WebRTC signaling error"]
             /\ lost' = IF counts THEN lost \cup {msg.data} ELSE lost
             /\ UNCHANGED mgrs
  /\ UNCHANGED <<registry, up, pending, connections, uiState, calls,
                 offers, pcs, offerSeen, skipped>>
  /\ UNCHANGED <<xferVars, srvVars, wireVars, cliVars>>

\* ------------------------------------------------------------ negotiation steps
\* createOffer resolves: the offer is the local description and is emitted.
OfferReady(m) ==
  /\ m \in 1..Len(mgrs)
  /\ mgrs[m].role = "initiator"
  /\ mgrs[m].stage = "creating"
  /\ LET d == mgrs[m].owner
         r == mgrs[m].remote
     IN /\ mgrs' = [mgrs EXCEPT ![m].stage = "offered", ![m].local = TRUE]
        /\ up' = Emit(up, d, Signal("offer", m, r, d))
        /\ offers' = IF d \in registry THEN [offers EXCEPT ![d][r] = @ + 1] ELSE offers
        /\ offerSeen' = [offerSeen EXCEPT ![d] = @ \cup {r}]
  /\ UNCHANGED <<registry, down, pending, connections, uiState, uiError, calls,
                 pcs, lost, skipped>>
  /\ UNCHANGED <<xferVars, srvVars, wireVars, cliVars>>

\* createOffer rejects: connections.delete(target), the error is rethrown and
\* the provider records it.
OfferFailed(m) ==
  /\ m \in 1..Len(mgrs)
  /\ mgrs[m].role = "initiator"
  /\ mgrs[m].stage = "creating"
  /\ LET d == mgrs[m].owner
         r == mgrs[m].remote
     IN /\ mgrs' = [mgrs EXCEPT ![m].stage = "failed"]
        /\ connections' = [connections EXCEPT ![d][r] = NoConn]
        /\ uiState' = [uiState EXCEPT ![d][r] = "failed"]
        /\ uiError' = [uiError EXCEPT ![d] = "createOffer failed"]
        /\ offers' = [offers EXCEPT ![d][r] = 0]
        /\ pcs' = [pcs EXCEPT ![d][r] = 0]
  /\ UNCHANGED <<registry, up, down, pending, calls, offerSeen, lost, skipped>>
  /\ UNCHANGED <<xferVars, srvVars, wireVars, cliVars>>

\* WebRTCManager.handleOffer resolves: both descriptions are set and the answer
\* is emitted.
AnswerReady(m) ==
  /\ m \in 1..Len(mgrs)
  /\ mgrs[m].role = "responder"
  /\ mgrs[m].stage = "answering"
  /\ mgrs' = [mgrs EXCEPT ![m].stage = "answered", ![m].local = TRUE,
                          ![m].remoteSet = TRUE]
  /\ up' = Emit(up, mgrs[m].owner,
                Signal("answer", m, mgrs[m].remote, mgrs[m].owner))
  /\ UNCHANGED <<registry, down, pending, connections, uiState, uiError, calls,
                 offers, pcs, offerSeen, lost, skipped>>
  /\ UNCHANGED <<xferVars, srvVars, wireVars, cliVars>>

\* WebRTCManager.handleOffer rejects (setRemoteDescription, createAnswer or
\* setLocalDescription throws): handleWebRTCSignal catches it and calls onError;
\* connections is not touched.
AnswerFailed(m) ==
  /\ m \in 1..Len(mgrs)
  /\ mgrs[m].role = "responder"
  /\ mgrs[m].stage = "answering"
  /\ mgrs' = [mgrs EXCEPT ![m].stage = "failed"]
  /\ uiError' = [uiError EXCEPT ![mgrs[m].owner] = "WebRTC signaling error"]
  /\ UNCHANGED <<registry, up, down, pending, connections, uiState, calls,
                 offers, pcs, offerSeen, lost, skipped>>
  /\ UNCHANGED <<xferVars, srvVars, wireVars, cliVars>>

RECURSIVE Gathered(_)
Gathered(ms) == IF ms = <<>> THEN 0 ELSE Head(ms).gathered + Gathered(Tail(ms))

\* peerConnection.onicecandidate -> onIceCandidate: the candidate is emitted.
IceCandidate(m) ==
  /\ m \in 1..Len(mgrs)
  /\ mgrs[m].local
  /\ mgrs[m].pc # "closed"
  /\ Gathered(mgrs) < MaxCand
  /\ mgrs' = [mgrs EXCEPT ![m].gathered = @ + 1]
  /\ up' = Emit(up, mgrs[m].owner,
                Signal("ice-candidate", <<m, mgrs[m].gathered + 1>>,
                       mgrs[m].remote, mgrs[m].owner))
  /\ UNCHANGED <<registry, down, pending, connections, uiState, uiError, calls,
                 offers, pcs, offerSeen, lost, skipped>>
  /\ UNCHANGED <<xferVars, srvVars, wireVars, cliVars>>

\* ------------------------------------------------------------ transport events
\* onConnectionStateChange of the manager made for remote r
StatusOf(state) ==
  IF state = "connected" THEN "connected"
  ELSE IF state = "connecting" THEN "connecting"
  ELSE IF state \in {"failed", "closed"} THEN "failed"
  ELSE "disconnected"

OnConnectionStateChange(d, r, state) ==
  IF connections[d][r] # NoConn
  THEN /\ connections' = [connections EXCEPT ![d][r].status = StatusOf(state)]
       /\ uiState' = [uiState EXCEPT ![d][r] = StatusOf(state)]
  ELSE UNCHANGED <<connections, uiState>>

\* The two ends are paired once the initiator holds the responder's answer.
Paired(m) ==
  LET p == mgrs[m].peer
  IN /\ p \in 1..Len(mgrs)
     /\ mgrs[p].peer = m
     /\ mgrs[m].local /\ mgrs[m].remoteSet
     /\ mgrs[p].local /\ mgrs[p].remoteSet
     /\ mgrs[p].pc \notin {"failed", "closed"}

PcNext(m, state) ==
  \/ /\ state = "connecting"
     /\ mgrs[m].pc = "new"
     /\ mgrs[m].local /\ mgrs[m].remoteSet
  \/ /\ state = "connected"
     /\ mgrs[m].pc \in {"connecting", "disconnected"}
     /\ Paired(m)
  \/ /\ state = "disconnected"
     /\ mgrs[m].pc = "connected"
  \/ /\ state = "failed"
     /\ mgrs[m].pc \in {"connecting", "disconnected"}

\* peerConnection.onconnectionstatechange
PcStateChange(m, state) ==
  /\ m \in 1..Len(mgrs)
  /\ PcNext(m, state)
  /\ mgrs' = [mgrs EXCEPT ![m].pc = state]
  /\ OnConnectionStateChange(mgrs[m].owner, mgrs[m].remote, state)
  /\ UNCHANGED <<registry, up, down, pending, uiError, calls,
                 offers, pcs, offerSeen, lost, skipped>>
  /\ UNCHANGED <<xferVars, srvVars, wireVars, cliVars>>

\* dataChannel.onopen -> onDataChannelOpen: what it does to the connections
OnDataChannelOpen(m) ==
  /\ m \in 1..Len(mgrs)
  /\ mgrs[m].pc = "connected"
  /\ mgrs[m].dc \in {"connecting", "none"}
  /\ mgrs' = [mgrs EXCEPT ![m].dc = "open"]
  /\ LET d == mgrs[m].owner
         r == mgrs[m].remote
     IN IF connections[d][r] # NoConn
        THEN /\ connections' = [connections EXCEPT ![d][r].status = "connected"]
             /\ uiState' = [uiState EXCEPT ![d][r] = "connected"]
        ELSE UNCHANGED <<connections, uiState>>
  /\ UNCHANGED <<registry, up, down, pending, uiError, calls,
                 offers, pcs, offerSeen, lost, skipped>>

DcOpen(m) ==
  /\ OnDataChannelOpen(m)
  /\ UNCHANGED <<xferVars, srvVars, wireVars, cliVars>>

\* dataChannel.onclose: logged only
OnDataChannelClose(m) ==
  /\ m \in 1..Len(mgrs)
  /\ mgrs[m].dc = "open"
  /\ mgrs' = [mgrs EXCEPT ![m].dc = "closed"]
  /\ UNCHANGED <<registry, up, down, pending, connections, uiState, uiError, calls,
                 offers, pcs, offerSeen, lost, skipped>>

DcClose(m) ==
  /\ OnDataChannelClose(m)
  /\ UNCHANGED <<xferVars, srvVars, wireVars, cliVars>>

ConnInit ==
  /\ registry = Clients
  /\ up = [d \in Clients |-> <<>>]
  /\ down = [d \in Clients |-> <<>>]
  /\ pending = [d \in Clients |-> <<>>]
  /\ mgrs = <<>>
  /\ connections = [d \in Clients |-> [r \in Ids |-> NoConn]]
  /\ uiState = [d \in Clients |-> [r \in Ids |-> "none"]]
  /\ uiError = [d \in Clients |-> "none"]
  /\ calls = 0
  /\ offers = [d \in Clients |-> [r \in Ids |-> 0]]
  /\ pcs = [d \in Clients |-> [r \in Ids |-> 0]]
  /\ offerSeen = [d \in Clients |-> {}]
  /\ lost = {}
  /\ skipped = {}
(***************************************************************************)
(* Part 3: SignalingServer in detail (src/server.js; the copy in           *)
(* src/app/api/socket/route.ts has the same handlers).  Here a device is   *)
(* what the server stores of it: id, socketId, lastSeen.  Device ids are   *)
(* fresh (uuidv4): 1, 2, ... in order of registration.  A socket id is     *)
(* never used again once its socket has disconnected.  What the server     *)
(* emits to a connected socket reaches it, in order (socket.io).           *)
(* Time is read at multiples of the clients' heartbeat interval.           *)
(***************************************************************************)
Sockets == {"s1", "s2"}

\* The client behind each socket.  Only DeviceDiscovery has a heartbeat timer;
\* SimpleNetworking stands for the inline page client too, which has none either.
ClientKind(s) == IF s = "s1" THEN "DeviceDiscovery" ELSE "SimpleNetworking"

HEARTBEAT_INTERVAL == 15000
ONLINE_TIMEOUT == 30000
REMOVE_TIMEOUT == 60000
SWEEP_INTERVAL == 30000

MaxTicks == 6        \* heartbeat intervals of time in one run
MaxDevices == 3      \* register-device events in one run
MaxSignals == 2      \* webrtc-signal events in one run
MaxQueries == 1      \* get-devices events in one run

NoList == [ev |-> "none"]
NoSignal == [socket |-> "none"]

\* ------------------------------------------------------------ the registry
RECURSIVE DeviceSet(_)
DeviceSet(devs) ==
  IF devs = <<>> THEN {} ELSE {Head(devs)} \cup DeviceSet(Tail(devs))

DeviceIds(devs) == {d.id : d \in DeviceSet(devs)}

\* this.devices.get(id)
HasDevice(devs, id) == id \in DeviceIds(devs)
GetDevice(devs, id) == CHOOSE d \in DeviceSet(devs) : d.id = id

\* An online test that counts the end of the window in.
IsOnlineInclusive(device, t) == t - device.lastSeen <= ONLINE_TIMEOUT

\* isDeviceOnline(device)
IsDeviceOnline(device, t) == t - device.lastSeen < ONLINE_TIMEOUT

\* the deviceList of sendDeviceList and broadcastDeviceList
DeviceList(devs, t) ==
  [ev |-> "devices-updated",
   devices |-> {[id |-> d.id,
                 status |-> IF IsDeviceOnline(d, t) THEN "online" ELSE "offline"] :
                d \in DeviceSet(devs)}]

\* socket.emit('devices-updated', deviceList)
SendList(ls, s, devs, t) ==
  IF s \in sockets THEN [ls EXCEPT ![s] = DeviceList(devs, t)] ELSE ls

\* A broadcast that was forgotten.
BroadcastNothing(ls, to, devs, t) == ls

\* this.io.emit('devices-updated', deviceList): to every socket in `to`
BroadcastDeviceList(ls, to, devs, t) ==
  [s \in Sockets |-> IF s \in to THEN DeviceList(devs, t) ELSE ls[s]]

\* An emit that would put the newest message first.
EmitFirst(box, s, msg) ==
  IF s \in sockets THEN [box EXCEPT ![s] = <<msg>> \o @] ELSE box

\* emit of any other event to one socket id: nothing if no such socket is connected
EmitTo(box, s, msg) ==
  IF s \in sockets THEN [box EXCEPT ![s] = Append(@, msg)] ELSE box

\* the device id the client on socket s holds: its latest 'device-registered'
RECURSIVE LastRegistered(_)
LastRegistered(box) ==
  IF box = <<>> THEN 0
  ELSE IF box[Len(box)].ev = "device-registered" THEN box[Len(box)].deviceId
  ELSE LastRegistered(SubSeq(box, 1, Len(box) - 1))

ClientDeviceId(s) == LastRegistered(inbox[s])

\* ------------------------------------------------------------ socket events
\* io.on('connection'); the client's 'connect' handler starts its heartbeat timer
Connection(s) ==
  /\ s \notin sockets \cup gone
  /\ sockets' = sockets \cup {s}
  /\ lastBeat' = [lastBeat EXCEPT ![s] = now]
  /\ UNCHANGED <<now, gone, devices, nextId, inbox, lists, lastSignal, nSignals,
                 queries, nextSweep>>
  /\ UNCHANGED <<xferVars, connVars, wireVars>>

SocketConnect(s) == Connection(s) /\ UNCHANGED cliVars

\* A registration that would number the devices by the size of the registry.
OnRegisterDeviceBySize(s) ==
  /\ s \in sockets
  /\ nextId <= MaxDevices
  /\ LET device == [id |-> Len(devices) + 1, socketId |-> s, lastSeen |-> now]
     IN /\ devices' = Append(devices, device)
        /\ inbox' = EmitTo(inbox, s, [ev |-> "device-registered",
                                      deviceId |-> Len(devices) + 1])
        /\ lists' = BroadcastDeviceList(lists, sockets, Append(devices, device), now)
  /\ nextId' = nextId + 1
  /\ UNCHANGED <<now, sockets, gone, lastSignal, nSignals, queries, lastBeat,
                 nextSweep>>
  /\ UNCHANGED <<xferVars, connVars, wireVars, cliVars>>

\* socket.on('register-device'): what the handler does
RegisterDevice(s) ==
  /\ s \in sockets
  /\ nextId <= MaxDevices
  /\ LET device == [id |-> nextId, socketId |-> s, lastSeen |-> now]
     IN /\ devices' = Append(devices, device)
        /\ inbox' = EmitTo(inbox, s, [ev |-> "device-registered", deviceId |-> nextId])
        /\ lists' = BroadcastDeviceList(lists, sockets, Append(devices, device), now)
  /\ nextId' = nextId + 1
  /\ UNCHANGED <<now, sockets, gone, lastSignal, nSignals, queries, lastBeat,
                 nextSweep>>
  /\ UNCHANGED <<xferVars, connVars, wireVars>>

\* socket.on('register-device'), from a client that emits it at any time
OnRegisterDevice(s) == RegisterDevice(s) /\ UNCHANGED cliVars

\* socket.on('get-devices')
OnGetDevices(s) ==
  /\ s \in sockets
  /\ queries < MaxQueries
  /\ queries' = queries + 1
  /\ lists' = SendList(lists, s, devices, now)
  /\ UNCHANGED <<now, sockets, gone, devices, nextId, inbox, lastSignal, nSignals,
                 lastBeat, nextSweep>>
  /\ UNCHANGED <<xferVars, connVars, wireVars, cliVars>>

\* The relay of one message that socket s sent.
Relay(box, s, msg) ==
  IF HasDevice(devices, msg.targetDeviceId)
  THEN EmitTo(box, GetDevice(devices, msg.targetDeviceId).socketId, msg)
  ELSE EmitTo(box, s, ErrorMsg("Target device not found"))

\* socket.on('webrtc-signal'): the client on s signals device `target`
OnWebrtcSignal(s, type, target) ==
  /\ s \in sockets
  /\ ClientDeviceId(s) # 0
  /\ nSignals < MaxSignals
  /\ nSignals' = nSignals + 1
  /\ LET msg == Signal(type, nSignals + 1, target, ClientDeviceId(s))
     IN /\ inbox' = Relay(inbox, s, msg)
        /\ lastSignal' = [socket |-> s, msg |-> msg]
  /\ UNCHANGED <<now, sockets, gone, devices, nextId, lists, queries, lastBeat,
                 nextSweep>>
  /\ UNCHANGED <<xferVars, connVars, wireVars, cliVars>>

\* A heartbeat that would register again a device the registry has forgotten.
TouchOrCreate(devs, id, t) ==
  IF \E i \in 1..Len(devs) : devs[i].id = id
  THEN [i \in 1..Len(devs) |->
          IF devs[i].id = id THEN [devs[i] EXCEPT !.lastSeen = t] ELSE devs[i]]
  ELSE Append(devs, [id |-> id, socketId |-> "none", lastSeen |-> t])

\* device.lastSeen = Date.now() on devices.get(deviceId), if there is one
Touch(devs, id, t) ==
  [i \in 1..Len(devs) |->
     IF devs[i].id = id THEN [devs[i] EXCEPT !.lastSeen = t] ELSE devs[i]]

\* DeviceDiscovery's heartbeat timer fires on socket s (it emits only when it
\* holds a device id), and the server's socket.on('heartbeat') runs.
OnHeartbeat(s) ==
  /\ s \in sockets
  /\ ClientKind(s) = "DeviceDiscovery"
  /\ now - lastBeat[s] >= HEARTBEAT_INTERVAL
  /\ lastBeat' = [lastBeat EXCEPT ![s] = now]
  /\ devices' = IF ClientDeviceId(s) # 0
                THEN Touch(devices, ClientDeviceId(s), now)
                ELSE devices
  /\ UNCHANGED <<now, sockets, gone, nextId, inbox, lists, lastSignal, nSignals,
                 queries, nextSweep>>
  /\ UNCHANGED <<xferVars, connVars, wireVars, cliVars>>

\* The disconnect handler's loop: the first device (in insertion order) whose
\* socketId is s is deleted, then the loop breaks.
RECURSIVE RemoveFirstOf(_, _)
RemoveFirstOf(devs, s) ==
  IF devs = <<>> THEN <<>>
  ELSE IF Head(devs).socketId = s THEN Tail(devs)
  ELSE <<Head(devs)>> \o RemoveFirstOf(Tail(devs), s)

\* socket.on('disconnect')
OnDisconnect(s) ==
  /\ s \in sockets
  /\ sockets' = sockets \ {s}
  /\ gone' = gone \cup {s}
  /\ devices' = RemoveFirstOf(devices, s)
  /\ lists' = BroadcastDeviceList(lists, sockets \ {s}, RemoveFirstOf(devices, s), now)
  /\ UNCHANGED <<now, nextId, inbox, lastSignal, nSignals, queries, lastBeat,
                 nextSweep>>
  /\ UNCHANGED <<xferVars, connVars, wireVars, cliVars>>

\* ------------------------------------------------------------ timers
\* An expiry test that waits one more sweep.
ExpiredLate(device, t) == t - device.lastSeen > REMOVE_TIMEOUT + SWEEP_INTERVAL

\* An expiry test that counts the end of the window in.
ExpiredInclusive(device, t) == t - device.lastSeen >= REMOVE_TIMEOUT

\* now - device.lastSeen > TIMEOUT
Expired(device, t) == t - device.lastSeen > REMOVE_TIMEOUT
Kept(devs, t) == SelectSeq(devs, LAMBDA d : ~Expired(d, t))

\* startCleanupTimer's interval callback
CleanupTimer ==
  /\ now = nextSweep
  /\ nextSweep' = nextSweep + SWEEP_INTERVAL
  /\ devices' = Kept(devices, now)
  /\ lists' = IF Kept(devices, now) # devices
              THEN BroadcastDeviceList(lists, sockets, Kept(devices, now), now)
              ELSE lists
  /\ UNCHANGED <<now, sockets, gone, nextId, inbox, lastSignal, nSignals, queries,
                 lastBeat>>
  /\ UNCHANGED <<xferVars, connVars, wireVars, cliVars>>

\* A heartbeat timer that is due and has not fired yet.
BeatDue(s) ==
  /\ s \in sockets
  /\ ClientKind(s) = "DeviceDiscovery"
  /\ now - lastBeat[s] >= HEARTBEAT_INTERVAL

\* Time passes, once the timers that are due have fired.
Advance ==
  /\ now < MaxTicks * HEARTBEAT_INTERVAL
  /\ now < nextSweep
  /\ \A s \in Sockets : ~BeatDue(s)
  /\ now' = now + HEARTBEAT_INTERVAL
  /\ UNCHANGED <<sockets, gone, devices, nextId, inbox, lists, lastSignal, nSignals,
                 queries, lastBeat, nextSweep>>
  /\ UNCHANGED <<xferVars, connVars, wireVars, cliVars>>

SrvInit ==
  /\ now = 0
  /\ sockets = {}
  /\ gone = {}
  /\ devices = <<>>
  /\ nextId = 1
  /\ inbox = [s \in Sockets |-> <<>>]
  /\ lists = [s \in Sockets |-> NoList]
  /\ lastSignal = NoSignal
  /\ nSignals = 0
  /\ queries = 0
  /\ lastBeat = [s \in Sockets |-> 0]
  /\ nextSweep = SWEEP_INTERVAL

\* ------------------------------------------------------------ Spec
\* One receiveFile(dc) call before any message: no meta, no chunks.
NoMeta == [none |-> TRUE]
NewReceiveFile == [meta |-> NoMeta, chunks |-> <<>>, resolved |-> FALSE]

NoSocket == "none"
CliInit ==
  /\ created = {}
  /\ held = NoSocket
  /\ buffered = [s \in Sockets |-> 0]
  /\ connects = 0
  /\ stopped = FALSE

WireInit ==
  /\ sender = "WebRTCManager"
  /\ receiver = "DeviceDiscovery"
  /\ snConnections = Remotes
  /\ libRecv = [r \in Remotes |-> NewReceiveFile]

XferInit ==
  /\ chanState = [r \in Remotes |-> "open"]
  /\ chanGen = [r \in Remotes |-> 1]
  /\ wire = [r \in Remotes |-> <<>>]
  /\ sends = <<>>
  /\ fileTransfers = [r \in Remotes |-> NoTransfer]
  /\ sent = [r \in Remotes |-> <<>>]
  /\ trace = [r \in Remotes |-> <<>>]

Init == XferInit /\ ConnInit /\ SrvInit /\ WireInit /\ CliInit

Next ==
  \/ \E r \in Senders, file \in Files : SendFile(r, file)
  \/ \E k \in 1..Len(sends) : ReaderOnload(k)
  \/ \E k \in 1..Len(sends) : ReaderOnerror(k)
  \/ \E r \in Senders : Deliver(r)
  \/ \E r \in Senders : CloseChannel(r)

Spec == Init /\ [][Next]_vars

\* The receiver alone, under every sequence of channel events.
NextRecv ==
  \/ \E r \in Remotes, frame \in RecvFrames : RemoteFrame(r, frame)
  \/ \E r \in Remotes : RecvClose(r)
  \/ \E r \in Remotes : ChannelError(r)
  \/ \E r \in Remotes : Reconnect(r)
  \/ DiscoveryDisconnect

SpecRecv == Init /\ [][NextRecv]_vars

\* What the server, the clients and the transport do once calls were made.
Signalling ==
  \/ \E d \in Clients : ServerHandle(d)
  \/ \E d \in Clients : Disconnect(d)
  \/ \E d \in Clients : RecvDevicesUpdated(d)
  \/ \E d \in Clients, i \in 1..MaxCalls : GetDeviceTimeout(d, i)
  \/ \E d \in Clients : RecvError(d)
  \/ \E d \in Clients : RecvOffer(d)
  \/ \E d \in Clients : RecvAnswer(d)
  \/ \E d \in Clients : RecvIceCandidate(d)
  \/ \E m \in 1..(2 * MaxCalls) : OfferReady(m)
  \/ \E m \in 1..(2 * MaxCalls) : OfferFailed(m)
  \/ \E m \in 1..(2 * MaxCalls) : AnswerReady(m)
  \/ \E m \in 1..(2 * MaxCalls) : IceCandidate(m)
  \/ \E m \in 1..(2 * MaxCalls),
        state \in {"connecting", "connected", "disconnected", "failed"} :
        PcStateChange(m, state)

Negotiation ==
  \/ Signalling
  \/ \E m \in 1..(2 * MaxCalls) : DcOpen(m)
  \/ \E m \in 1..(2 * MaxCalls) : DcClose(m)

\* Registry, relay and negotiation between the clients.
NextConn ==
  \/ \E d \in Callers, t \in Ids : ConnectToDevice(d, t)
  \/ Negotiation
SpecConn == Init /\ [][NextConn]_vars

\* What runs on without anyone's doing: the server and the socket handlers
\* take each message, timers fire, promises settle and the browser reports
\* each state change that is due.  Calls and lost sockets are not forced.
Fairness ==
  /\ \A d \in Clients :
        /\ WF_vars(ServerHandle(d))
        /\ WF_vars(RecvDevicesUpdated(d))
        /\ WF_vars(\E i \in 1..MaxCalls : GetDeviceTimeout(d, i))
        /\ WF_vars(RecvError(d))
        /\ WF_vars(RecvOffer(d))
        /\ WF_vars(RecvAnswer(d))
        /\ WF_vars(RecvIceCandidate(d))
  /\ \A m \in 1..(2 * MaxCalls) :
        /\ WF_vars(OfferReady(m) \/ OfferFailed(m))
        /\ WF_vars(AnswerReady(m))
        /\ WF_vars(\E state \in {"connecting", "connected", "failed"} :
                     PcStateChange(m, state))
        /\ WF_vars(DcOpen(m))

\* The same system when connectToDevice is called once.
FirstConnect(d, t) == calls = 0 /\ ConnectToDevice(d, t)
NextOne ==
  \/ \E d \in Callers, t \in Ids : FirstConnect(d, t)
  \/ Negotiation
SpecOne == Init /\ [][NextOne]_vars /\ Fairness

\* Both devices may initiate: each calls connectToDevice for the other, once.
\* The offers and answers are exchanged with no socket lost, no timeout and
\* no candidate on the way.
CallOnce(d, t) ==
  /\ uiState[d][t] = "none"
  /\ ConnectToDevice(d, t)
NextGlare ==
  \/ \E d \in Clients, t \in Clients : CallOnce(d, t)
  \/ \E d \in Clients : ServerHandle(d)
  \/ \E d \in Clients : RecvDevicesUpdated(d)
  \/ \E d \in Clients : RecvOffer(d)
  \/ \E d \in Clients : RecvAnswer(d)
  \/ \E m \in 1..(2 * MaxCalls) : OfferReady(m)
  \/ \E m \in 1..(2 * MaxCalls) : AnswerReady(m)
  \/ \E m \in 1..(2 * MaxCalls), state \in {"connecting", "connected"} :
        PcStateChange(m, state)
  \/ \E m \in 1..(2 * MaxCalls) : DcOpen(m)
SpecGlare == Init /\ [][NextGlare]_vars

\* The handshake when a step of it may fail: createOffer on the initiator,
\* handleOffer on the responder.  Either client may call connectToDevice.
NextFail ==
  \/ \E d \in Clients, t \in Clients : ConnectToDevice(d, t)
  \/ \E d \in Clients : ServerHandle(d)
  \/ \E d \in Clients : RecvDevicesUpdated(d)
  \/ \E d \in Clients : RecvOffer(d)
  \/ \E d \in Clients : RecvAnswer(d)
  \/ \E m \in 1..(2 * MaxCalls) : OfferReady(m)
  \/ \E m \in 1..(2 * MaxCalls) : OfferFailed(m)
  \/ \E m \in 1..(2 * MaxCalls) : AnswerReady(m)
  \/ \E m \in 1..(2 * MaxCalls) : AnswerFailed(m)
SpecFail == Init /\ [][NextFail]_vars

\* ------------------------------------------------------------ other implementations
\* SimpleNetworking.sendFile and the page's sendFileToDevice are one algorithm;
\* the page receives with receiveFile of lib/fileTransfer.
SenderImpls == {"WebRTCManager", "SimpleNetworking", "fileTransfer"}
ReceiverImpls == {"DeviceDiscovery", "SimpleNetworking", "fileTransfer"}

FileMetaMsg(file) ==
  [type |-> "file-meta",
   meta |-> [name |-> file.name, size |-> file.size, mimeType |-> file.mimeType]]
FileDoneMsg == [type |-> "file-done"]

\* WebRTCManager.sendFile, when that is the sender
ManagerSendFile(r, file) ==
  /\ sender = "WebRTCManager"
  /\ SendFile(r, file)

\* SimpleNetworking.sendFile(deviceId, file), up to the first readAsArrayBuffer
SnSendFile(r, file) ==
  /\ sender = "SimpleNetworking"
  /\ Len(sends) < MaxSends
  /\ Reserved(sends) + FrameBudget(file) <= MaxFrames
  /\ IF r \notin snConnections \/ chanState[r] # "open"
     THEN \* throws 'No active connection to device'
          /\ sends' = Append(sends, NewSend(r, file, "rejected"))
          /\ UNCHANGED <<wire, sent>>
     ELSE /\ sends' = Append(sends, NewSend(r, file, "reading"))
          /\ wire' = [wire EXCEPT ![r] = Append(@, TextFrame(FileStartMsg(file)))]
          /\ sent' = [sent EXCEPT ![r] =
                        Append(@, Put(Len(sends) + 1, TextFrame(FileStartMsg(file))))]
  /\ UNCHANGED <<chanState, chanGen, fileTransfers, trace>>
  /\ UNCHANGED <<connVars, srvVars, wireVars, cliVars>>

\* sendFile(file, dc) of lib/fileTransfer, up to the first stream.read()
LibSendFile(r, file) ==
  /\ sender = "fileTransfer"
  /\ Len(sends) < MaxSends
  /\ Reserved(sends) + FrameBudget(file) <= MaxFrames
  /\ IF chanState[r] # "open"
     THEN \* throws 'Data channel not open'
          /\ sends' = Append(sends, NewSend(r, file, "rejected"))
          /\ UNCHANGED <<wire, sent>>
     ELSE /\ sends' = Append(sends, NewSend(r, file, "reading"))
          /\ wire' = [wire EXCEPT ![r] = Append(@, TextFrame(FileMetaMsg(file)))]
          /\ sent' = [sent EXCEPT ![r] =
                        Append(@, Put(Len(sends) + 1, TextFrame(FileMetaMsg(file))))]
  /\ UNCHANGED <<chanState, chanGen, fileTransfers, trace>>
  /\ UNCHANGED <<connVars, srvVars, wireVars, cliVars>>

\* The sizes file.stream() may hand out in one read: the platform chooses.
StreamSizes == {CHUNK_SIZE, 4 * CHUNK_SIZE}

\* One stream.read() of call k and what the loop does with it; n is the size
\* the stream hands out.  dc.send throws on a channel that is not open.
LibRead(k, n) ==
  LET s == sends[k]
      r == s.r
      value == Slice(s.file, s.offset, s.offset + n)
      frame == IF s.offset >= s.file.size
               THEN TextFrame(FileDoneMsg) ELSE BinaryFrame(value)
  IN
  /\ sender = "fileTransfer"
  /\ s.st = "reading"
  /\ IF chanState[r] # "open"
     THEN /\ sends' = [sends EXCEPT ![k].st = "rejected"]
          /\ UNCHANGED <<wire, sent>>
     ELSE /\ sends' = IF s.offset >= s.file.size
                      THEN [sends EXCEPT ![k].st = "resolved"]
                      ELSE [sends EXCEPT ![k].offset = @ + ByteLength(value)]
          /\ wire' = [wire EXCEPT ![r] = Append(@, frame)]
          /\ sent' = [sent EXCEPT ![r] = Append(@, Put(k, frame))]
  /\ UNCHANGED <<chanState, chanGen, fileTransfers, trace>>
  /\ UNCHANGED <<connVars, srvVars, wireVars, cliVars>>

\* reader.onload of SimpleNetworking.sendFile is that of WebRTCManager.sendFile
\* with connection.dataChannel for this.dataChannel.
FileReaderOnload(k) ==
  /\ sender # "fileTransfer"
  /\ ReaderOnload(k)

\* WebRTCManager.close(): the channel is closed and dropped.
ManagerClose(r) ==
  /\ sender = "WebRTCManager"
  /\ CloseChannel(r)

\* SimpleNetworking.disconnect(): the socket goes and the maps are cleared; no
\* data channel and no peer connection is closed.
SnDisconnect ==
  /\ sender = "SimpleNetworking"
  /\ snConnections # {}
  /\ snConnections' = {}
  /\ UNCHANGED <<sender, receiver, libRecv>>
  /\ UNCHANGED <<xferVars, connVars, srvVars, cliVars>>

\* receiveFile(dc): dc.onmessage, and the page's .then that runs when the
\* promise resolves (a promise resolves once).
TotalReceived(chunks) == ByteLength(BlobOf(chunks))
ReceiveFileAfter(c, frame) ==
  IF frame.kind = "text"
  THEN IF frame.msg.type = "file-meta" THEN [c EXCEPT !.meta = frame.msg.meta]
       ELSE IF frame.msg.type = "file-done" /\ c.meta # NoMeta
       THEN [c EXCEPT !.resolved = TRUE]
       ELSE c
  ELSE [c EXCEPT !.chunks = Append(@, frame.data)]

ReceiveFileEmitted(c, r, frame) ==
  IF frame.kind = "text"
  THEN IF frame.msg.type = "file-done" /\ c.meta # NoMeta /\ ~c.resolved
       THEN <<Ev("received", r, [name |-> c.meta.name, size |-> c.meta.size,
                                 blob |-> BlobOf(c.chunks)])>>
       ELSE <<>>
  ELSE IF c.meta = NoMeta THEN <<>>
       ELSE <<Ev("progress", r,
                 [fileName |-> c.meta.name, totalSize |-> c.meta.size,
                  receivedSize |-> TotalReceived(Append(c.chunks, frame.data))])>>

ReceiveFileOnMessage(r, frame) ==
  /\ libRecv' = [libRecv EXCEPT ![r] = ReceiveFileAfter(@, frame)]
  /\ trace' = [trace EXCEPT ![r] =
                 @ \o <<Ev("msg", r, frame)>> \o ReceiveFileEmitted(libRecv[r], r, frame)]

\* channel.onmessage of whichever receiver is installed
WireDeliver(r) ==
  /\ chanState[r] = "open"
  /\ wire[r] # <<>>
  /\ IF receiver = "fileTransfer"
     THEN /\ ReceiveFileOnMessage(r, Head(wire[r]))
          /\ UNCHANGED <<fileTransfers, sender, receiver, snConnections>>
     ELSE /\ HandleDataChannelMessage(r, Head(wire[r]))
          /\ UNCHANGED wireVars
  /\ wire' = [wire EXCEPT ![r] = Tail(@)]
  /\ UNCHANGED <<chanState, chanGen, sends, sent>>
  /\ UNCHANGED <<connVars, srvVars, cliVars>>

WireFiles == {f \in Files : f.size \in {0, 1, CHUNK_SIZE + 1, 40000}}

InitWire ==
  /\ XferInit
  /\ ConnInit
  /\ SrvInit
  /\ CliInit
  /\ sender \in SenderImpls
  /\ receiver \in ReceiverImpls
  /\ snConnections = Remotes
  /\ libRecv = [r \in Remotes |-> NewReceiveFile]

NextWire ==
  \/ \E r \in Senders, file \in WireFiles : ManagerSendFile(r, file)
  \/ \E r \in Senders, file \in WireFiles : SnSendFile(r, file)
  \/ \E r \in Senders, file \in WireFiles : LibSendFile(r, file)
  \/ \E k \in 1..Len(sends) : FileReaderOnload(k)
  \/ \E k \in 1..Len(sends), n \in StreamSizes : LibRead(k, n)
  \/ \E k \in 1..Len(sends) : ReaderOnerror(k)
  \/ \E r \in Senders : WireDeliver(r)
  \/ \E r \in Senders : ManagerClose(r)
  \/ SnDisconnect
SpecWire == InitWire /\ [][NextWire]_vars

\* ------------------------------------------------------------ end to end
\* A connects to B and sends one file over the channel they negotiated.  The
\* transfer part names that channel by one remote id: chanState is the
\* readyState of A's end, wire what A has sent and B has not yet been given,
\* trace what B's handleDataChannelMessage was given and emitted.
PeerChannel == "r1"
ScenarioFile == CHOOSE f \in Files : f.size = 40000

\* DeviceDiscovery.sendFileToDevice, then WebRTCManager.sendFile
SendFileToDevice(d, t, file) ==
  /\ sends = <<>>
  /\ IF connections[d][t] = NoConn \/ connections[d][t].status # "connected"
     THEN \* throws 'No active connection to target device'
          /\ sends' = Append(sends, NewSend(PeerChannel, file, "rejected"))
          /\ UNCHANGED <<chanState, chanGen, wire, fileTransfers, sent, trace>>
          /\ UNCHANGED <<connVars, srvVars, wireVars, cliVars>>
     ELSE SendFile(PeerChannel, file)

\* B's channel.onmessage: B is given a frame once its end of the channel is open.
PeerDeliver(d, t) ==
  /\ ChannelOpenTo(t, d)
  /\ Deliver(PeerChannel)

\* channel.onopen at A's or B's end
PeerDcOpen(m) ==
  /\ OnDataChannelOpen(m)
  /\ IF mgrs[m].role = "initiator"
     THEN chanState' = [chanState EXCEPT ![PeerChannel] = "open"]
     ELSE UNCHANGED chanState
  /\ UNCHANGED <<chanGen, wire, sends, fileTransfers, sent, trace>>
  /\ UNCHANGED <<srvVars, wireVars, cliVars>>

\* channel.onclose at either end: the channel is closed for both, frames in
\* flight are lost.
PeerDcClose(m) ==
  /\ OnDataChannelClose(m)
  /\ chanState' = [chanState EXCEPT ![PeerChannel] = "closed"]
  /\ wire' = [wire EXCEPT ![PeerChannel] = <<>>]
  /\ trace' = [trace EXCEPT ![PeerChannel] =
                 IF chanState[PeerChannel] = "open"
                 THEN Append(@, Ev("close", PeerChannel, <<>>)) ELSE @]
  /\ UNCHANGED <<chanGen, sends, fileTransfers, sent>>
  /\ UNCHANGED <<srvVars, wireVars, cliVars>>

\* Before any negotiation there is no channel.
InitPeers ==
  /\ chanState = [r \in Remotes |-> "closed"]
  /\ chanGen = [r \in Remotes |-> 1]
  /\ wire = [r \in Remotes |-> <<>>]
  /\ sends = <<>>
  /\ fileTransfers = [r \in Remotes |-> NoTransfer]
  /\ sent = [r \in Remotes |-> <<>>]
  /\ trace = [r \in Remotes |-> <<>>]
  /\ ConnInit
  /\ SrvInit
  /\ WireInit
  /\ CliInit

NextPeers ==
  \/ \E d \in Callers, t \in Ids : FirstConnect(d, t)
  \/ Signalling
  \/ \E m \in 1..(2 * MaxCalls) : PeerDcOpen(m)
  \/ \E m \in 1..(2 * MaxCalls) : PeerDcClose(m)
  \/ \E d \in Callers, t \in Clients \ Callers : SendFileToDevice(d, t, ScenarioFile)
  \/ \E k \in 1..Len(sends) : ReaderOnload(k)
  \/ \E k \in 1..Len(sends) : ReaderOnerror(k)
  \/ \E d \in Callers, t \in Clients \ Callers : PeerDeliver(d, t)
SpecPeers == InitPeers /\ [][NextPeers]_vars

\* The registry over time: sockets, registrations, heartbeats and the timers.
NextServer ==
  \/ \E s \in Sockets : SocketConnect(s)
  \/ \E s \in Sockets : OnRegisterDevice(s)
  \/ \E s \in Sockets : OnGetDevices(s)
  \/ \E s \in Sockets : OnHeartbeat(s)
  \/ \E s \in Sockets : OnDisconnect(s)
  \/ CleanupTimer
  \/ Advance
SpecServer == Init /\ [][NextServer]_vars

\* The heartbeat handler on its own: socket.on('heartbeat', (deviceId) => ...)
\* with whatever device id the message carries, from any client of the socket
\* server, whose timer may fire late (setInterval gives no deadline): the id
\* can be one that was never issued, or one that a disconnect or the sweep has
\* removed.  A client emits at most one heartbeat in an interval; lastBeat[s]
\* records when socket s emitted its last one.
HeartbeatIds == 1..MaxDevices

OnHeartbeatOf(s, deviceId) ==
  /\ s \in sockets
  /\ now - lastBeat[s] >= HEARTBEAT_INTERVAL
  /\ lastBeat' = [lastBeat EXCEPT ![s] = now]
  /\ devices' = Touch(devices, deviceId, now)
  /\ UNCHANGED <<now, sockets, gone, nextId, inbox, lists, lastSignal, nSignals,
                 queries, nextSweep>>
  /\ UNCHANGED <<xferVars, connVars, wireVars, cliVars>>

\* Time passes, whether or not a heartbeat timer is due.
Tick ==
  /\ now < MaxTicks * HEARTBEAT_INTERVAL
  /\ now < nextSweep
  /\ now' = now + HEARTBEAT_INTERVAL
  /\ UNCHANGED <<sockets, gone, devices, nextId, inbox, lists, lastSignal, nSignals,
                 queries, lastBeat, nextSweep>>
  /\ UNCHANGED <<xferVars, connVars, wireVars, cliVars>>

NextBeat ==
  \/ \E s \in Sockets : SocketConnect(s)
  \/ \E s \in Sockets : OnRegisterDevice(s)
  \/ \E s \in Sockets, deviceId \in HeartbeatIds : OnHeartbeatOf(s, deviceId)
  \/ \E s \in Sockets : OnDisconnect(s)
  \/ CleanupTimer
  \/ Tick
SpecBeat == Init /\ [][NextBeat]_vars

\* ------------------------------------------------------------ any frame
\* A string that JSON.parse rejects, and a message of a type no receiver knows.
NotJsonFrame == [kind |-> "text", text |-> "{"]
OtherMsg == [type |-> "chat"]
AnyFrames ==
  RecvFrames \cup {NotJsonFrame, TextFrame(OtherMsg), TextFrame(FileDoneMsg)}
    \cup {TextFrame(FileMetaMsg(f)) : f \in RecvFiles}

\* dc.onmessage with any frame.  JSON.parse is the first thing each receiver
\* does with a string: one that is not JSON throws before anything is changed
\* (handleDataChannelMessage catches and logs it, receiveFile does not catch).
AnyFrame(r, frame) ==
  /\ TotalInputs(Remotes) < MaxEvents
  /\ chanState[r] = "open"
  /\ IF frame = NotJsonFrame
     THEN /\ trace' = [trace EXCEPT ![r] = Append(@, Ev("msg", r, frame))]
          /\ UNCHANGED <<fileTransfers, libRecv>>
     ELSE IF receiver = "fileTransfer"
     THEN /\ ReceiveFileOnMessage(r, frame)
          /\ UNCHANGED fileTransfers
     ELSE /\ HandleDataChannelMessage(r, frame)
          /\ UNCHANGED libRecv
  /\ UNCHANGED <<chanState, chanGen, wire, sends, sent>>
  /\ UNCHANGED <<sender, receiver, snConnections>>
  /\ UNCHANGED <<connVars, srvVars, cliVars>>

InitAny ==
  /\ XferInit
  /\ ConnInit
  /\ SrvInit
  /\ CliInit
  /\ sender = "WebRTCManager"
  /\ receiver \in ReceiverImpls
  /\ snConnections = Remotes
  /\ libRecv = [r \in Remotes |-> NewReceiveFile]

\* Each receiver under every sequence of frames, well formed or not.
NextAny ==
  \/ \E r \in Remotes, frame \in AnyFrames : AnyFrame(r, frame)
  \/ \E r \in Remotes : RecvClose(r)
SpecAny == InitAny /\ [][NextAny]_vars

\* ------------------------------------------------------------ one client
\* One DeviceDiscovery instance, its connect() calls and the sockets it makes.
MaxConnects == 2     \* connect() calls in one run

\* DeviceDiscovery.connect(): returns if this.socket is connected, else makes a
\* new socket with io(serverUrl), keeps it in this.socket and installs the
\* handlers; the socket connects later.
Connect ==
  /\ connects < MaxConnects
  /\ ~stopped
  /\ connects' = connects + 1
  /\ IF held # NoSocket /\ held \in sockets
     THEN UNCHANGED <<created, held>>
     ELSE \E s \in Sockets \ created :
            /\ created' = created \cup {s}
            /\ held' = s
  /\ UNCHANGED <<buffered, stopped>>
  /\ UNCHANGED <<xferVars, connVars, srvVars, wireVars>>

\* Socket s connects: io.on('connection') on the server, and on the client the
\* 'connect' handler installed on s, which calls registerDevice(): the emit goes
\* to this.socket, whichever socket that is by now (an emit on a socket that
\* has not connected yet waits in its send buffer).
OnConnect(s) ==
  /\ s \in created
  /\ Connection(s)
  /\ buffered' = IF held # NoSocket
                 THEN [buffered EXCEPT ![held] = @ + 1]
                 ELSE buffered
  /\ UNCHANGED <<created, held, connects, stopped>>

\* The server handles a 'register-device' that socket s has sent.
ServerRegister(s) ==
  /\ buffered[s] > 0
  /\ RegisterDevice(s)
  /\ buffered' = [buffered EXCEPT ![s] = @ - 1]
  /\ UNCHANGED <<created, held, connects, stopped>>

NextClient ==
  \/ Connect
  \/ \E s \in Sockets : OnConnect(s)
  \/ \E s \in Sockets : ServerRegister(s)
  \/ CleanupTimer
  \/ Tick
SpecClient == Init /\ [][NextClient]_vars

\* ------------------------------------------------------------ disconnect()
\* disconnect() of the receiving instance.  DeviceDiscovery.disconnect closes
\* the WebRTCManager of every connection (channel and peer connection) and
\* leaves fileTransfers alone; SimpleNetworking.disconnect clears its
\* connections and fileTransfers maps and closes nothing.
InstanceDisconnect ==
  /\ ~stopped
  /\ stopped' = TRUE
  /\ IF receiver = "DeviceDiscovery"
     THEN /\ chanState' = [r \in Remotes |-> "closed"]
          /\ wire' = [r \in Remotes |-> <<>>]
          /\ trace' = [r \in Remotes |->
                         IF chanState[r] = "open"
                         THEN Append(trace[r], Ev("close", r, <<>>))
                         ELSE trace[r]]
          /\ UNCHANGED fileTransfers
     ELSE /\ fileTransfers' = [r \in Remotes |-> NoTransfer]
          /\ UNCHANGED <<chanState, wire, trace>>
  /\ UNCHANGED <<chanGen, sends, sent>>
  /\ UNCHANGED <<created, held, buffered, connects>>
  /\ UNCHANGED <<connVars, srvVars, wireVars>>

InitStop ==
  /\ XferInit
  /\ ConnInit
  /\ SrvInit
  /\ CliInit
  /\ sender = "WebRTCManager"
  /\ receiver \in {"DeviceDiscovery", "SimpleNetworking"}
  /\ snConnections = Remotes
  /\ libRecv = [r \in Remotes |-> NewReceiveFile]

\* The receiving instance, the frames its remotes send it, and its disconnect().
NextStop ==
  \/ \E r \in Remotes, frame \in RecvFrames : RemoteFrame(r, frame)
  \/ \E r \in Remotes : RecvClose(r)
  \/ InstanceDisconnect
SpecStop == InitStop /\ [][NextStop]_vars

\* ------------------------------------------------------------ the timers, longer
\* The registry over a longer time, for sockets that stay connected: the
\* heartbeat timers and the cleanup timer fire when they are due.
Horizon == 8         \* heartbeat intervals of time in one run of SpecSweep

Pass ==
  /\ now < Horizon * HEARTBEAT_INTERVAL
  /\ now < nextSweep
  /\ \A s \in Sockets : ~BeatDue(s)
  /\ now' = now + HEARTBEAT_INTERVAL
  /\ UNCHANGED <<sockets, gone, devices, nextId, inbox, lists, lastSignal, nSignals,
                 queries, lastBeat, nextSweep>>
  /\ UNCHANGED <<xferVars, connVars, wireVars, cliVars>>

NextSweep ==
  \/ \E s \in Sockets : SocketConnect(s)
  \/ \E s \in Sockets : OnRegisterDevice(s)
  \/ \E s \in Sockets : OnGetDevices(s)
  \/ \E s \in Sockets : OnHeartbeat(s)
  \/ CleanupTimer
  \/ Pass
SpecSweep == Init /\ [][NextSweep]_vars

\* ------------------------------------------------------------ any client
\* socket.on('webrtc-signal', (message) => ...) with the message as the client
\* wrote it: the handler reads message.targetDeviceId and nothing else.
OnWebrtcSignalOf(s, type, target, source) ==
  /\ s \in sockets
  /\ nSignals < MaxSignals
  /\ nSignals' = nSignals + 1
  /\ LET msg == Signal(type, nSignals + 1, target, source)
     IN /\ inbox' = Relay(inbox, s, msg)
        /\ lastSignal' = [socket |-> s, msg |-> msg]
  /\ UNCHANGED <<now, sockets, gone, devices, nextId, lists, queries, lastBeat,
                 nextSweep>>
  /\ UNCHANGED <<xferVars, connVars, wireVars, cliVars>>

\* The relay and clients that put any device id in what they send, with the
\* clock standing still.
NextForge ==
  \/ \E s \in Sockets : SocketConnect(s)
  \/ \E s \in Sockets : OnRegisterDevice(s)
  \/ \E s \in Sockets, target \in 1..MaxDevices, source \in HeartbeatIds :
        OnWebrtcSignalOf(s, "offer", target, source)
  \/ \E s \in Sockets : OnDisconnect(s)
SpecForge == Init /\ [][NextForge]_vars

\* The relay: what the server does with the events of its sockets, with the
\* clock standing still.
NextRelay ==
  \/ \E s \in Sockets : SocketConnect(s)
  \/ \E s \in Sockets : OnRegisterDevice(s)
  \/ \E s \in Sockets : OnGetDevices(s)
  \/ \E s \in Sockets, type \in {"offer"}, target \in 1..MaxDevices :
        OnWebrtcSignal(s, type, target)
  \/ \E s \in Sockets : OnDisconnect(s)
SpecRelay == Init /\ [][NextRelay]_vars

\* ------------------------------------------------------------ claims, transfer
IsStart(f) == f.kind = "text" /\ f.msg.type = "file-start"
IsEnd(f) == f.kind = "text" /\ f.msg.type = "file-end"
IsChunk(f) == f.kind = "binary"

CeilDiv(n, c) == (n + c - 1) \div c

\* Positions in remote r's send history that belong to call k.
PutsOf(r, k) == {i \in 1..Len(sent[r]) : sent[r][i].call = k}
ReceivedEvents(r) == {i \in 1..Len(trace[r]) : trace[r][i].k = "received"}

\* C1: a completed sendFile call of a file of N bytes has put exactly one
\* file-start, exactly ceil(N / CHUNK_SIZE) binary chunks and exactly one
\* file-end on the wire; and when it is the only call, what the receiver
\* reassembles is the source, byte for byte, once all frames are delivered.
C1_RoundTrip ==
  \A k \in 1..Len(sends) :
    sends[k].st = "resolved" =>
      LET r == sends[k].r
          file == sends[k].file
          mine == PutsOf(r, k)
      IN  /\ Cardinality({i \in mine : IsStart(sent[r][i].frame)}) = 1
          /\ Cardinality({i \in mine : IsChunk(sent[r][i].frame)})
               = CeilDiv(file.size, CHUNK_SIZE)
          /\ Cardinality({i \in mine : IsEnd(sent[r][i].frame)}) = 1
          /\ Len(sends) = 1 =>
               /\ \A i \in ReceivedEvents(r) :
                    /\ trace[r][i].x.blob = FileBytes(file)
                    /\ trace[r][i].x.name = file.name
               /\ (chanState[r] = "open" /\ wire[r] = <<>>) =>
                    Cardinality(ReceivedEvents(r)) = 1

\* C10: on one channel no frame of another sendFile call lies between the
\* file-start and the file-end of a call.
C10_NoInterleaving ==
  \A r \in Remotes :
    \A p, q, s \in 1..Len(sent[r]) :
      ( /\ p < q /\ q < s
        /\ IsStart(sent[r][p].frame)
        /\ IsEnd(sent[r][s].frame)
        /\ sent[r][p].call = sent[r][s].call )
      => sent[r][q].call = sent[r][p].call

IsStartEntry(r, i) == trace[r][i].k = "msg" /\ IsStart(trace[r][i].x)
StartsBefore(r, i) == {j \in 1..(i - 1) : IsStartEntry(r, j)}
MaxOf(S) == CHOOSE m \in S : \A n \in S : n <= m

\* The file-start that opened the session which is active just before
\* position i of r's trace, or 0: the last file-start with no ReceivedFile since.
OpenerBefore(r, i) ==
  LET starts == StartsBefore(r, i)
  IN  IF starts = {} THEN 0
      ELSE IF \E m \in (MaxOf(starts) + 1)..(i - 1) : trace[r][m].k = "received"
      THEN 0 ELSE MaxOf(starts)

\* C2: a ReceivedFile is emitted only for a session that a file-start opened
\* on the very channel that is delivering the file-end; a session whose channel
\* closed before file-end yields no ReceivedFile, at the close or later.
C2_NoPartialFile ==
  \A r \in Remotes :
    \A i \in ReceivedEvents(r) :
      /\ OpenerBefore(r, i) # 0
      /\ trace[r][OpenerBefore(r, i)].gen = trace[r][i].gen

\* What the handler of input i emitted: the entries up to the next input.
ResponseTo(r, i) ==
  {m \in (i + 1)..Len(trace[r]) :
     \A n \in (i + 1)..m : ~IsInput(trace[r][n])}

\* The bytes of the binary frames given to the receiver between i and m.
PayloadBetween(r, i, m) ==
  LET es == SelectSeq(SubSeq(trace[r], i + 1, m - 1),
                      LAMBDA e : e.k = "msg" /\ IsChunk(e.x))
  IN  BlobOf([n \in 1..Len(es) |-> es[n].x.data])

\* C3: a file-start that arrives while a session of that remote is active is
\* answered by an error, and no ReceivedFile that carries the name and size of
\* the second file holds bytes received before it.
C3_SecondMetaIsError ==
  \A r \in Remotes :
    \A i \in 1..Len(trace[r]) :
      (IsStartEntry(r, i) /\ OpenerBefore(r, i) # 0) =>
        /\ \E m \in ResponseTo(r, i) : trace[r][m].k = "error"
        /\ \A m \in ReceivedEvents(r) :
             (m > i /\ OpenerBefore(r, m) = i) =>
               trace[r][m].x.blob = PayloadBetween(r, i, m)

\* ------------------------------------------------------------ claims, connection
\* C4: a second connectToDevice(R) made while the first call is in progress, or
\* while the connection is connecting or connected, creates no second peer
\* connection and sends no second offer: per (local, R) at most one peer
\* connection is created and at most one offer emitted until the connection
\* is removed.
C4_IdempotentInitiate ==
  \A d \in Clients, r \in Ids : pcs[d][r] <= 1 /\ offers[d][r] <= 1

ConnectPending(d, t) ==
  \E i \in 1..Len(pending[d]) : pending[d][i] = ConnectTask(t)

\* C5: connecting to an id that the registry does not hold leaves no connection
\* entry, emits no offer, and, once the call has returned on a client whose
\* socket is connected, leaves the connection state for that id as it was
\* before the call (it is not set to failed).
C5_UnknownTarget ==
  \A d \in Clients :
    /\ connections[d][Unknown] = NoConn
    /\ offers[d][Unknown] = 0
    /\ (d \in registry /\ ~ConnectPending(d, Unknown)) => uiState[d][Unknown] = "none"

\* C6: a remote's connection status is 'connected' only while the data channel
\* of that connection is open.
C6_ConnectedMeansChannelOpen ==
  \A d \in Clients, r \in Ids :
    connections[d][r].status = "connected" => mgrs[connections[d][r].mgr].dc = "open"

\* C7: every ice-candidate delivered to a device after the offer was delivered
\* to it (responder) or sent by it (initiator), and before the channel opened,
\* was applied to the peer connection: none was lost.
C7_NoCandidateDropped == lost = {}

\* C8: a connection that reached the failed state is no longer in the active
\* connection set, and no connectToDevice call returned as already connected
\* on a failed connection.
C8_FailedLeavesActiveSet ==
  /\ \A s \in skipped : s.status # "failed"
  /\ \A d \in Clients, r \in Ids : connections[d][r].status # "failed"

\* C9: every connection that enters the connecting state eventually reaches
\* connected or failed (or is removed when its offer could not be created).
C9_NegotiationNeverHangs ==
  \A d \in Clients, r \in Clients :
    (connections[d][r].status = "connecting")
      ~> (connections[d][r].status \in {"connected", "failed", "none"})

\* ------------------------------------------------------------ claims, sessions
\* C11: when the channel to a remote closes, or disconnect() is called, the
\* receive session of that remote leaves the transfer table in the same step:
\* no remote whose channel is closed has a session in the table.
C11_CloseAbortsSession ==
  \A r \in Remotes : chanState[r] = "closed" => fileTransfers[r] = NoTransfer

\* ------------------------------------------------------------ claims, relay
IsSignal(msg) == msg.ev = "webrtc-signal"

\* C12: for every webrtc-signal the server is given, either the target id is
\* in the registry and the message reaches, unmodified, the connected socket
\* of the target device and nothing else is emitted, or the target id is not
\* in the registry and a target-not-found error is emitted to the sender and
\* nothing else; the message is never dropped without either.
C12_RelayOutcome ==
  [][nSignals' = nSignals + 1 =>
       LET msg == lastSignal'.msg
           from == lastSignal'.socket
           target == msg.targetDeviceId
       IN \/ /\ HasDevice(devices, target)
             /\ GetDevice(devices, target).socketId \in sockets
             /\ inbox' = [inbox EXCEPT ![GetDevice(devices, target).socketId] =
                                        Append(@, msg)]
          \/ /\ ~HasDevice(devices, target)
             /\ inbox' = [inbox EXCEPT ![from] =
                                        Append(@, ErrorMsg("Target device not found"))]
  ]_vars

\* C13: the signals of one (source, target) pair stand in every socket's inbox
\* in the order in which the server was given them (their data is the number
\* of the signal in that order).
C13_RelayOrder ==
  \A s \in Sockets :
    \A i, j \in 1..Len(inbox[s]) :
      (/\ i < j
       /\ IsSignal(inbox[s][i]) /\ IsSignal(inbox[s][j])
       /\ inbox[s][i].sourceDeviceId = inbox[s][j].sourceDeviceId
       /\ inbox[s][i].targetDeviceId = inbox[s][j].targetDeviceId)
      => inbox[s][i].data < inbox[s][j].data

C13_TwoSignalsOfOnePair ==
  \E s \in Sockets :
    \E i, j \in 1..Len(inbox[s]) :
      /\ i < j
      /\ IsSignal(inbox[s][i]) /\ IsSignal(inbox[s][j])
      /\ inbox[s][i].sourceDeviceId = inbox[s][j].sourceDeviceId
      /\ inbox[s][i].targetDeviceId = inbox[s][j].targetDeviceId
      /\ s # lastSignal.socket

\* ------------------------------------------------------------ claims, registry
\* What a device list must say of the registry devs at time t: every device,
\* 'online' if and only if t - lastSeen is below the online window.
StatusAt(device, t) ==
  IF t - device.lastSeen < ONLINE_TIMEOUT THEN "online" ELSE "offline"
TrueList(l, devs, t) ==
  /\ l.ev = "devices-updated"
  /\ l.devices = {[id |-> d.id, status |-> StatusAt(d, t)] : d \in DeviceSet(devs)}

\* C14: every device list the server emits holds every registered device and
\* marks it 'online' if and only if now - lastSeen is below the 30 s window:
\* a list that a step hands to a socket is the true list of the registry after
\* that step, and a get-devices step hands such a list to one socket.
C14_DerivedOnlineStatus ==
  [][/\ \A s \in Sockets :
          lists'[s] # lists[s] => TrueList(lists'[s], devices', now')
     /\ queries' # queries =>
          \E s \in sockets :
            /\ TrueList(lists'[s], devices', now')
            /\ \A t \in Sockets \ {s} : lists'[t] = lists[t]
  ]_vars

C14_OnlineAndOfflineListed ==
  \E s \in sockets :
    /\ lists[s] # NoList
    /\ \E a, b \in lists[s].devices : a.status = "online" /\ b.status = "offline"
    /\ \E d \in DeviceSet(devices) : now - d.lastSeen = ONLINE_TIMEOUT
    /\ TrueList(lists[s], devices, now)

\* C15: after a socket disconnected, the registry holds no device whose
\* socketId is that socket, however many register-device events it had sent.
C15_UnregisterOnDisconnect ==
  \A s \in gone : \A d \in DeviceSet(devices) : d.socketId # s

ListIds(l) == {e.id : e \in l.devices}

\* C16: a step that changes the set of registered devices hands every
\* connected socket a list with exactly the registry's ids after the change;
\* so the last list a connected socket was sent always has exactly the
\* registry's ids.
C16_MembershipBroadcast ==
  /\ [](\A s \in sockets :
          lists[s] # NoList => ListIds(lists[s]) = DeviceIds(devices))
  /\ [][DeviceIds(devices') # DeviceIds(devices) =>
          \A s \in sockets' :
            /\ lists'[s] # NoList
            /\ ListIds(lists'[s]) = DeviceIds(devices')
       ]_vars

\* a sweep removed a device, and the connected sockets were told
C16_SweptAndTold ==
  /\ gone = {}
  /\ Len(devices) < nextId - 1
  /\ sockets = Sockets
  /\ \A s \in sockets : lists[s] # NoList /\ ListIds(lists[s]) = DeviceIds(devices)

\* C17: a registered device whose socket stays connected is never removed by
\* the sweep and never listed as offline, whatever client is behind the socket.
C17_ConnectedNotForgotten ==
  \A s \in sockets :
    ClientDeviceId(s) # 0 =>
      /\ HasDevice(devices, ClientDeviceId(s))
      /\ \A t \in sockets :
           lists[t] # NoList =>
             [id |-> ClientDeviceId(s), status |-> "offline"] \notin lists[t].devices

\* ------------------------------------------------------------ claims, progress
ProgressEvents(r) == {i \in 1..Len(trace[r]) : trace[r][i].k = "progress"}

\* a progress event that handleFileChunk emitted (not the 0 % of file-start)
IsChunkEvent(r, i) ==
  /\ i > 1
  /\ trace[r][i].k = "progress"
  /\ trace[r][i - 1].k = "msg"
  /\ IsChunk(trace[r][i - 1].x)

\* the chunk events of the session that file-start o opened, before position m
ChunkEventsOf(r, o, m) ==
  {i \in (o + 1)..(m - 1) : IsChunkEvent(r, i) /\ OpenerBefore(r, i) = o}

\* C18: within one receive session the receivedSize of successive progress
\* events never decreases; and when the session ends with a ReceivedFile, its
\* last chunk event reports receivedSize = totalSize and no earlier chunk
\* event of the session does.
C18_ProgressMonotone ==
  \A r \in Remotes :
    /\ \A i, j \in ProgressEvents(r) :
         (i < j /\ OpenerBefore(r, i) # 0 /\ OpenerBefore(r, i) = OpenerBefore(r, j))
           => trace[r][i].x.receivedSize <= trace[r][j].x.receivedSize
    /\ \A m \in ReceivedEvents(r) :
         LET ce == ChunkEventsOf(r, OpenerBefore(r, m), m)
         IN /\ ce # {}
            /\ \A i \in ce :
                 (trace[r][i].x.receivedSize = trace[r][i].x.totalSize)
                   <=> (i = MaxOf(ce))

\* C19: no progress event reports more bytes than the totalSize its file-start
\* declared, and no ReceivedFile is emitted whose bytes exceed its declared size.
C19_OversizeIsError ==
  \A r \in Remotes :
    /\ \A i \in ProgressEvents(r) :
         trace[r][i].x.receivedSize <= trace[r][i].x.totalSize
    /\ \A m \in ReceivedEvents(r) :
         ByteLength(trace[r][m].x.blob) <= trace[r][m].x.size

\* ------------------------------------------------------------ claims, end to end
PeersConnected ==
  \E ma, mb \in 1..Len(mgrs) :
    /\ mgrs[ma].owner = "A" /\ mgrs[ma].remote = "B"
    /\ mgrs[mb].owner = "B" /\ mgrs[mb].remote = "A"
    /\ mgrs[ma].pc = "connected" /\ mgrs[mb].pc = "connected"
    /\ mgrs[ma].dc = "open" /\ mgrs[mb].dc = "open"

\* A's sendFile call resolved and B was given every frame of it.
TransferDone ==
  /\ Len(sends) = 1
  /\ sends[1].st = "resolved"
  /\ wire[PeerChannel] = <<>>
  /\ chanState[PeerChannel] = "open"

ProgressSizes(r) ==
  LET t == SelectSeq(trace[r], LAMBDA e : e.k = "progress")
  IN  [i \in 1..Len(t) |-> t[i].x.receivedSize]

OneFileOf40000(r) ==
  /\ Cardinality(ReceivedEvents(r)) = 1
  /\ \A m \in ReceivedEvents(r) :
       /\ trace[r][m].x.size = ScenarioFile.size
       /\ ByteLength(trace[r][m].x.blob) = ScenarioFile.size

\* C20 as stated: once A and B are connected both report 'connected', and once
\* A has sent the 40000-byte file B has observed exactly three progress events,
\* 16384, 32768 and 40000, and exactly one ReceivedFile of size 40000.
C20_ThreeProgressEvents ==
  /\ PeersConnected =>
       /\ connections["A"]["B"].status = "connected"
       /\ connections["B"]["A"].status = "connected"
  /\ TransferDone =>
       /\ ProgressSizes(PeerChannel) = <<CHUNK_SIZE, 2 * CHUNK_SIZE, ScenarioFile.size>>
       /\ OneFileOf40000(PeerChannel)

\* C20, amended: the same, where B observes four progress events: the 0 of
\* file-start, then 16384, 32768 and 40000, one for each chunk.
C20_EndToEnd ==
  /\ PeersConnected =>
       /\ connections["A"]["B"].status = "connected"
       /\ connections["B"]["A"].status = "connected"
  /\ TransferDone =>
       /\ ProgressSizes(PeerChannel) = <<0, CHUNK_SIZE, 2 * CHUNK_SIZE, ScenarioFile.size>>
       /\ OneFileOf40000(PeerChannel)

C20_FileArrived ==
  /\ PeersConnected
  /\ TransferDone
  /\ ReceivedEvents(PeerChannel) # {}

\* ------------------------------------------------------------ claims, sending
\* C21: a sendFile / sendFileToDevice call made while the data channel is not
\* open is rejected, puts no frame on the wire and leaves the connections, the
\* reported states and the managers as they were.
C21_ChannelNotReady ==
  [][(Len(sends') = Len(sends) + 1 /\ chanState[PeerChannel] # "open")
       => /\ sends'[Len(sends')].st = "rejected"
          /\ wire' = wire
          /\ sent' = sent
          /\ connections' = connections
          /\ uiState' = uiState
          /\ mgrs' = mgrs]_vars

\* sendFile was called on a connection reported 'connected' whose channel was
\* not open, and was rejected with nothing sent.
C21_RejectedBeforeOpen ==
  /\ Len(sends) = 1
  /\ sends[1].st = "rejected"
  /\ sent[PeerChannel] = <<>>
  /\ chanState[PeerChannel] # "open"
  /\ connections["A"]["B"].status = "connected"

\* The sender has closed its connection to r.
SenderClosed(r) ==
  \/ sender = "WebRTCManager" /\ chanState[r] # "open"
  \/ sender = "SimpleNetworking" /\ r \notin snConnections

\* C22: once the sender has closed the connection (WebRTCManager.close,
\* SimpleNetworking.disconnect), no frame of a sendFile call is put on the wire
\* any more, and a call that was in flight does not resolve as a success.
C22_SendCancelled ==
  [][\A r \in Remotes :
       SenderClosed(r) =>
         /\ sent'[r] = sent[r]
         /\ \A k \in 1..Len(sends) :
              (sends[k].r = r /\ sends[k].st = "reading")
                => sends'[k].st # "resolved"]_vars

\* C23: every binary frame a sender of the repository has put on a channel
\* holds at most CHUNK_SIZE bytes.
C23_ChunkSizeBound ==
  \A r \in Remotes : \A i \in 1..Len(sent[r]) :
    sent[r][i].frame.kind = "binary"
      => ByteLength(sent[r][i].frame.data) <= CHUNK_SIZE

\* ------------------------------------------------------------ claims, several files
\* Every call to r resolved, each made after the one before it had resolved,
\* and the receiver has been given every frame.
SentInTurn(r) ==
  /\ sends # <<>>
  /\ \A k \in 1..Len(sends) : sends[k].r = r /\ sends[k].st = "resolved"
  /\ \A i, j \in 1..Len(sent[r]) : i < j => sent[r][i].call <= sent[r][j].call
  /\ wire[r] = <<>>
  /\ chanState[r] = "open"

\* Sender and receiver speak the same control messages.
SameProtocol == (sender = "fileTransfer") <=> (receiver = "fileTransfer")

ReceivedSeq(r) == SelectSeq(trace[r], LAMBDA e : e.k = "received")

\* C24: when k files were sent one after another over one open channel, the
\* receiver has emitted exactly k ReceivedFile results, in send order, the k-th
\* made of exactly the bytes of the k-th file.
C24_FilesInARow ==
  \A r \in Remotes :
    (SentInTurn(r) /\ SameProtocol) =>
      /\ Len(ReceivedSeq(r)) = Len(sends)
      /\ \A k \in 1..Len(sends) :
           k <= Len(ReceivedSeq(r)) =>
             /\ ReceivedSeq(r)[k].x.name = sends[k].file.name
             /\ ReceivedSeq(r)[k].x.size = sends[k].file.size
             /\ ReceivedSeq(r)[k].x.blob = FileBytes(sends[k].file)

\* C26: every control message on the wire is a file-start or a file-end, and a
\* file sent by any sender and wholly delivered has been emitted as one
\* ReceivedFile by the receiver, whichever implementation it is.
C26_OneWireProtocol ==
  \A r \in Remotes :
    /\ \A i \in 1..Len(sent[r]) :
         sent[r][i].frame.kind = "text"
           => sent[r][i].frame.msg.type \in {"file-start", "file-end"}
    /\ (SentInTurn(r) /\ Len(sends) = 1) =>
         /\ Len(ReceivedSeq(r)) = 1
         /\ ReceivedSeq(r)[1].x.name = sends[1].file.name

\* ------------------------------------------------------------ claims, peer connections
\* The peer connections of device d for remote r that are not closed.
LivePeerConnections(d, r) ==
  {m \in 1..Len(mgrs) :
     mgrs[m].owner = d /\ mgrs[m].remote = r /\ mgrs[m].pc # "closed"}

\* C25: a device holds at most one live peer connection for a remote id, and
\* the one it holds is the one its connection entry names: no entry was
\* replaced while the peer connection of the old entry stayed open.
C25_OnePeerConnectionPerRemote ==
  \A d \in Clients, r \in Ids :
    /\ Cardinality(LivePeerConnections(d, r)) <= 1
    /\ \A m \in LivePeerConnections(d, r) : connections[d][r].mgr = m

\* ------------------------------------------------------------ claims, frame order
ChunksOf(r, k) == {i \in PutsOf(r, k) : IsChunk(sent[r][i].frame)}
EndsOf(r, k) == {i \in PutsOf(r, k) : IsEnd(sent[r][i].frame)}
RECURSIVE BytesPut(_, _)
BytesPut(r, is) ==
  IF is = {} THEN 0
  ELSE LET i == CHOOSE x \in is : TRUE
       IN  ByteLength(sent[r][i].frame.data) + BytesPut(r, is \ {i})

C28_StateOrder ==
  [][\A d \in Clients, r \in Ids :
       LET a == connections[d][r]
           b == connections'[d][r]
       IN (a # NoConn /\ b # NoConn /\ b.mgr = a.mgr) =>
            /\ a.status = "connected" => b.status # "connecting"
            /\ a.status = "failed" => b.status \notin {"connecting", "connected"}]_vars

\* ------------------------------------------------------------ claims, sweep
\* The callback of the cleanup timer has run in this step.
SweepRan == nextSweep' # nextSweep

\* The devices of the registry that are in devs, in the registry's order.
InOrder(devs, part) ==
  /\ DeviceSet(part) \subseteq DeviceSet(devs)
  /\ \A i, j \in 1..Len(part) :
       i < j => \E k, l \in 1..Len(devs) : k < l /\ devs[k] = part[i] /\ devs[l] = part[j]

\* C29: each run of the cleanup timer removes exactly the devices with
\* now - lastSeen greater than 60 s, leaves every other registry entry
\* unchanged, and broadcasts an updated device list if and only if it removed
\* at least one device.
C29_SweepEffect ==
  [][SweepRan =>
       /\ InOrder(devices, devices')
       /\ \A d \in DeviceSet(devices) :
            d \in DeviceSet(devices') <=> now - d.lastSeen <= 60000
       /\ inbox' = inbox
       /\ IF devices' # devices
          THEN \A s \in Sockets :
                 lists'[s] = IF s \in sockets THEN DeviceList(devices', now) ELSE lists[s]
          ELSE lists' = lists
    ]_vars

\* the sweep has just removed a device that was silent for more than 60 s and
\* kept one that was silent for exactly 60 s; both sockets were sent the list
C29_SweptOneKeptOne ==
  /\ now = nextSweep - SWEEP_INTERVAL
  /\ gone = {}
  /\ sockets = Sockets
  /\ Len(devices) < nextId - 1
  /\ \E d \in DeviceSet(devices) : now - d.lastSeen = REMOVE_TIMEOUT
  /\ \A s \in sockets : lists[s] = DeviceList(devices, now)


\* ------------------------------------------------------------ claims, heartbeat
\* The server has handled a heartbeat that carried this id in this step.
HeartbeatHandled(id) == \E s \in Sockets : OnHeartbeatOf(s, id)

\* C30: a heartbeat for an id that is in the registry changes only that
\* device's lastSeen (to now); a heartbeat for an id that is not in the
\* registry (never registered, disconnected or already swept) leaves the
\* registry unchanged, does not re-create the device, and emits no message to
\* any client.
C30_HeartbeatEffect ==
  [][\A id \in HeartbeatIds :
       HeartbeatHandled(id) =>
         /\ Len(devices') = Len(devices)
         /\ \A i \in 1..Len(devices) :
              devices'[i] = IF devices[i].id = id
                            THEN [devices[i] EXCEPT !.lastSeen = now]
                            ELSE devices[i]
         /\ id \notin DeviceIds(devices) =>
              devices' = devices /\ id \notin DeviceIds(devices')
         /\ inbox' = inbox
         /\ lists' = lists
         /\ nextId' = nextId /\ sockets' = sockets
    ]_vars

\* a connected socket whose device the sweep has removed has emitted a
\* heartbeat now, no socket has disconnected, and the registry still holds a
\* device, none of them seen now: the heartbeat carried an id the registry did
\* not have, and nothing was touched or created
C30_BeatAfterSweep ==
  \E s \in sockets :
    /\ gone = {}
    /\ ClientDeviceId(s) # 0
    /\ ~HasDevice(devices, ClientDeviceId(s))
    /\ lastBeat[s] = now
    /\ now > REMOVE_TIMEOUT
    /\ devices # <<>>
    /\ \A d \in DeviceSet(devices) : d.lastSeen < now


\* ------------------------------------------------------------ claims, register
\* The ids the server has handed out so far: those of the 'device-registered'
\* messages it has emitted.
IssuedTo(s) ==
  {inbox[s][i].deviceId :
     i \in {j \in 1..Len(inbox[s]) : inbox[s][j].ev = "device-registered"}}
IssuedIds == UNION {IssuedTo(s) : s \in Sockets}

\* A register-device was handled in this step.
RegisterRan == nextId' # nextId

\* C31: each register-device adds exactly one new registry entry under an id
\* that was never used before in the process, with lastSeen = now and the
\* sender's socket as owner, leaves all existing entries unchanged, and answers
\* device-registered with that same id to the registering socket only.
C31_RegisterEffect ==
  [][RegisterRan =>
       \E s \in sockets :
         LET new == devices'[Len(devices')]
         IN /\ Len(devices') = Len(devices) + 1
            /\ SubSeq(devices', 1, Len(devices)) = devices
            /\ new.id \notin IssuedIds \cup DeviceIds(devices)
            /\ new.lastSeen = now
            /\ new.socketId = s
            /\ inbox' = [inbox EXCEPT
                           ![s] = Append(@, [ev |-> "device-registered",
                                             deviceId |-> new.id])]
    ]_vars

\* a device was registered after another one had been removed: the registry
\* has fewer entries than ids were handed out, the newest entry is seen now,
\* and its owner holds its id
C31_RegisteredAfterRemoval ==
  /\ devices # <<>>
  /\ Len(devices) + 1 < nextId - 1
  /\ LET new == devices[Len(devices)]
     IN /\ new.lastSeen = now
        /\ now > 0
        /\ new.socketId \in sockets
        /\ ClientDeviceId(new.socketId) = new.id
        /\ \A d \in DeviceSet(devices) : d = new \/ d.id # new.id


\* ------------------------------------------------------------ claims, sender progress
\* The bytes call k has actually handed to dataChannel.send as binary messages.
BytesSentBy(k) == BytesPut(sends[k].r, ChunksOf(sends[k].r, k))

\* C32: after each chunk is sent, the sender's bytes-sent counter (`offset`)
\* equals the total number of bytes actually sent so far, it never exceeds the
\* file size, and it equals the file size exactly when file-end is sent
\* (including when the last chunk is shorter than CHUNK_SIZE).
C32_SenderProgressExact ==
  \A k \in 1..Len(sends) :
    /\ sends[k].offset = BytesSentBy(k)
    /\ sends[k].offset <= sends[k].file.size
    /\ sends[k].st = "resolved" => sends[k].offset = sends[k].file.size


\* ------------------------------------------------------------ claims, reported size
\* C33: for every ReceivedFile the receiver emits, the size field equals the
\* number of bytes in its blob (the sum of the lengths of the chunks received
\* in that session), in every sequence of messages, not only when the declared
\* size was correct.
C33_ReportedSizeIsReal ==
  \A r \in Remotes :
    \A i \in ReceivedEvents(r) :
      trace[r][i].x.size = ByteLength(trace[r][i].x.blob)


\* ------------------------------------------------------------ claims, failed negotiation
\* Manager m's negotiation step has failed in this step.
StepFailed(m) ==
  /\ m \in 1..Len(mgrs)
  /\ mgrs[m].stage # "failed"
  /\ mgrs'[m].stage = "failed"

\* C34: if creating the offer fails on the initiator, or handling an incoming
\* offer fails on the responder, the connections map holds no entry for that
\* remote afterwards, so the pair is not left in 'connecting' for ever and a
\* later connectToDevice is not refused as already connected.
C34_NoEntryAfterFailure ==
  [][\A m \in 1..(2 * MaxCalls) :
       StepFailed(m) => connections'[mgrs[m].owner][mgrs[m].remote] = NoConn]_vars


\* ------------------------------------------------------------ claims, one client
\* The registry entries owned by the sockets of the instance.
OwnedEntries == {d \in DeviceSet(devices) : d.socketId \in created}

\* C35: for any sequence of connect() calls on one DeviceDiscovery instance,
\* including a second call made before the first socket has connected, at most
\* one socket is created and kept, and each server-side socket receives at
\* most one register-device, so one client never owns two registry entries.
C35_OneSocketOneRegistration ==
  /\ Cardinality(created) <= 1
  /\ \A s \in Sockets : Cardinality(IssuedTo(s)) <= 1
  /\ Cardinality(OwnedEntries) <= 1


\* ------------------------------------------------------------ claims, disconnect
\* onFileTransferProgress and onFileReceived calls made so far for remote r.
FileEvents(r) ==
  {i \in 1..Len(trace[r]) : trace[r][i].k \in {"progress", "received"}}

\* C36: after disconnect() returns, every peer connection and data channel the
\* instance created is closed and the instance emits no further
\* onFileTransferProgress or onFileReceived event, for both DeviceDiscovery and
\* SimpleNetworking.
C36_DisconnectIsFinal ==
  /\ [](stopped => \A r \in Remotes : chanState[r] = "closed")
  /\ [][stopped => \A r \in Remotes : FileEvents(r)' = FileEvents(r)]_vars

\* ------------------------------------------------------------ claims, stray messages
\* The control messages the installed receiver knows: the one that opens a
\* session and the one that ends it.
StartType == IF receiver = "fileTransfer" THEN "file-meta" ELSE "file-start"
EndType == IF receiver = "fileTransfer" THEN "file-done" ELSE "file-end"

\* No session is open for remote r.
NoSession(r) ==
  IF receiver = "fileTransfer"
  THEN libRecv[r].meta = NoMeta
  ELSE fileTransfers[r] = NoTransfer

\* Frame f, arriving from remote r, belongs to no session or is no message the
\* receiver knows.
IsStray(r, f) ==
  \/ f = NotJsonFrame
  \/ f.kind = "binary" /\ NoSession(r)
  \/ f # NotJsonFrame /\ f.kind = "text" /\ f.msg.type = EndType /\ NoSession(r)
  \/ f # NotJsonFrame /\ f.kind = "text" /\ f.msg.type \notin {StartType, EndType}

\* A frame has arrived from r in this step.
Arrived(r) ==
  /\ Len(trace'[r]) > Len(trace[r])
  /\ trace'[r][Len(trace[r]) + 1].k = "msg"

\* C37: a binary chunk or a file-end received from a remote that has no active
\* session, and a text message that is not valid JSON or has an unknown type,
\* leave the receiver's transfer table unchanged and emit neither a progress
\* event nor a ReceivedFile.
C37_StrayChangesNothing ==
  [][\A r \in Remotes :
       (Arrived(r) /\ IsStray(r, trace'[r][Len(trace[r]) + 1].x)) =>
          /\ fileTransfers' = fileTransfers
          /\ libRecv' = libRecv
          /\ Len(trace'[r]) = Len(trace[r]) + 1
          /\ FileEvents(r)' = FileEvents(r)]_vars

\* ------------------------------------------------------------ claims, authenticity
\* Device id is registered to socket s.
OwnedBy(id, s) == \E d \in DeviceSet(devices) : d.id = id /\ d.socketId = s

\* C38: every signaling message the server forwards carries a sourceDeviceId
\* that is registered to the socket that sent it, and a heartbeat refreshes
\* only a device owned by the socket that sent it; one client cannot signal or
\* keep alive in the name of another device.
C38_SourceAuthentic ==
  [][/\ (nSignals' # nSignals /\ HasDevice(devices, lastSignal'.msg.targetDeviceId))
          => OwnedBy(lastSignal'.msg.sourceDeviceId, lastSignal'.socket)
     /\ \A i \in 1..Len(devices) :
          (Len(devices') >= i /\ devices'[i].id = devices[i].id
             /\ devices'[i].lastSeen # devices[i].lastSeen)
          => lastBeat'[devices[i].socketId] # lastBeat[devices[i].socketId]
    ]_vars

\* ------------------------------------------------------------ claims, removal time
\* How long the registry has not heard of device d.
Silence(d) == now - d.lastSeen

\* The list says device d is offline.
SaysOffline(list, d) == [id |-> d.id, status |-> "offline"] \in list.devices

\* C39: with the sweep running every 30 s and an expiry threshold of 60 s, a
\* device that stops heartbeating while its socket stays connected is removed
\* from the registry no earlier than 60 s and no later than 90 s after its
\* last heartbeat, and from 30 s after that heartbeat until its removal every
\* emitted list reports it offline.
C39_RemovalTimeBounds ==
  /\ [](\A d \in DeviceSet(devices) :
          /\ Silence(d) <= 90000
          /\ Silence(d) = 90000 => now = nextSweep)
  /\ [][/\ \A d \in DeviceSet(devices) :
            d.id \notin DeviceIds(devices') => Silence(d) >= 60000
        /\ \A s \in sockets :
            lists'[s] # lists[s] =>
              \A d \in DeviceSet(devices') :
                (now - d.lastSeen >= 30000) => SaysOffline(lists'[s], d)
    ]_vars

\* a device whose socket is still connected was removed 90 s after it was last
\* heard of, and the list the sockets were sent then reports another device,
\* silent for 30 s or more, offline
C39_RemovedAtNinety ==
  /\ gone = {}
  /\ sockets = Sockets
  /\ now = nextSweep - SWEEP_INTERVAL
  /\ \E s \in sockets :
       /\ IssuedTo(s) # {}
       /\ \E id \in IssuedTo(s) : ~HasDevice(devices, id)
  /\ \E d \in DeviceSet(devices) :
       /\ Silence(d) >= ONLINE_TIMEOUT
       /\ \A s \in sockets : lists[s] # NoList /\ SaysOffline(lists[s], d)

====
